---- MODULE Spec2Model ----
(***************************************************************************)
(* A model of tree-parser: the construct extraction engine                 *)
(* (src/src/parser.rs), the node-type search layer (src/src/search.rs),    *)
(* the language tables (src/src/languages.rs) and the directory            *)
(* orchestrator (parse_directory, collect_files, parse_files_parallel).    *)
(*                                                                         *)
(* The specifications share the variables:                                 *)
(*   SpecExtract  one syntax tree is drawn, extract_constructs is applied  *)
(*                to it and the searches of search.rs are run on the       *)
(*                resulting ParsedFile;                                    *)
(*   Spec         a traversal (parse_directory or                          *)
(*                parse_directory_with_filter) over a drawn directory,     *)
(*                and a second call on the same directory;                 *)
(*   SpecFair     one parse_directory call under fair scheduling;          *)
(*   SpecCollect  the enumeration of the candidates;                       *)
(*   SpecCategory the convenience searches; SpecQuery search_by_query;     *)
(*   SpecLang     the Language conversions; SpecDetect detect_language.    *)
(***************************************************************************)
EXTENDS Integers, Sequences, FiniteSets, TLC

VARIABLES
    \* ---- extraction and search (SpecExtract) ----
    xpc,            \* "idle" | "input" | "extracted" | "searched"
    language,       \* the Language tag handed to extract_constructs
    tree,           \* the syntax tree handed to extract_constructs
    parsed_file,    \* the ParsedFile built from the extraction
    search_args,    \* the arguments of the last search call
    results,        \* the Vec<CodeConstruct> the last search returned
    \* ---- one traversal (Spec) ----
    pc,             \* where the traversal call stands
    root_exists,    \* whether dir_path exists
    fs,             \* the entries the walker yields under the root, in order
    ts_named,       \* whether the linked grammars report a name
    api,            \* the entry point called
    options,        \* the ParseOptions of the call
    file_filter,    \* the FileFilter of the call (Option)
    files_to_parse, \* the candidate list
    chunk_size,     \* chunk_size of parse_files_parallel
    chunk_start,    \* position in files_to_parse of the next chunk
    tasks,          \* the futures of the chunk in flight
    lock,           \* the task holding the pool mutex, 0 when free
    parsers,        \* the parser pool
    parsed_files,   \* parsed_files of parse_files_parallel
    error_files,    \* error_files of parse_files_parallel
    ret,            \* the value the call returned (Option<Result>)
    completed,      \* the paths of the call's tasks in the order they finished
    prev,           \* what an earlier call of the same caller returned (Option)
    polls,          \* parity of the number of steps the call's future has taken
    \* ---- language-tag conversions (SpecLang) ----
    conv,           \* the strings and tags of one chain of conversions
    \* ---- language detection (SpecDetect) ----
    det             \* the arguments and the result of one detect_language call

exVars == <<xpc, language, tree, parsed_file, search_args, results>>

vars == <<xpc, language, tree, parsed_file, search_args, results,
          pc, root_exists, fs, ts_named, api, options, file_filter,
          files_to_parse, chunk_size, chunk_start, tasks, lock, parsers,
          parsed_files, error_files, ret, completed, prev, polls, conv,
          det>>

travVars == <<pc, root_exists, fs, ts_named, api, options, file_filter,
              files_to_parse, chunk_size, chunk_start, tasks, lock, parsers,
              parsed_files, error_files, ret, completed, prev, polls>>

(***************************************************************************)
(* Option<T>: None is the empty sequence, Some(x) the one-element sequence *)
(***************************************************************************)
None == <<>>
Some(x) == <<x>>
IsSome(o) == Len(o) = 1
Unwrap(o) == o[1]

Range(s) == {s[i] : i \in DOMAIN s}

(***************************************************************************)
(* Bounds of the model                                                     *)
(***************************************************************************)
\* nodes of a drawn syntax tree, the root included
MaxNodes == 5

(***************************************************************************)
(* languages.rs: the per-language allow-list of construct kinds            *)
(***************************************************************************)
get_supported_node_types(lang) ==
    CASE lang = "Python" ->
            <<"function_definition", "class_definition", "import_statement",
              "import_from_statement", "assignment", "decorated_definition">>
      [] lang = "Rust" ->
            <<"function_item", "struct_item", "enum_item", "impl_item",
              "trait_item", "mod_item", "use_declaration", "const_item",
              "static_item">>
      [] lang = "JavaScript" ->
            <<"function_declaration", "function_expression", "arrow_function",
              "class_declaration", "method_definition", "variable_declaration",
              "import_statement", "export_statement">>
      [] lang = "TypeScript" ->
            <<"function_declaration", "function_expression", "arrow_function",
              "class_declaration", "interface_declaration",
              "type_alias_declaration", "method_definition",
              "variable_declaration", "import_statement", "export_statement">>
      [] lang = "Java" ->
            <<"class_declaration", "interface_declaration",
              "method_declaration", "constructor_declaration",
              "field_declaration", "import_declaration",
              "package_declaration">>
      [] lang = "C" ->
            <<"function_definition", "declaration", "struct_specifier",
              "union_specifier", "enum_specifier", "preproc_include",
              "preproc_define">>
      [] lang = "Cpp" ->
            <<"function_definition", "declaration", "class_specifier",
              "struct_specifier", "union_specifier", "enum_specifier",
              "namespace_definition", "preproc_include", "preproc_define">>
      [] lang = "Go" ->
            <<"function_declaration", "method_declaration", "type_declaration",
              "var_declaration", "const_declaration", "import_declaration",
              "package_clause">>
      [] OTHER -> <<>>

\* Vec::contains / slice::contains
Contains(vec, x) == \E i \in DOMAIN vec : vec[i] = x

(***************************************************************************)
(* Syntax trees (the grammar engine's output).                             *)
(* A tree is [par, lab]: nodes are 1..Len(par) numbered in document        *)
(* (pre-order) order, node 1 is the root, par[n] is the parent of n (0 for *)
(* the root).  lab[n] is [kind, leaves]: the node's kind and the leaf      *)
(* tokens among its direct children (keywords, identifiers), in order.     *)
(* Leaf tokens are never allow-listed and have no children, so the         *)
(* extraction's descent into them creates nothing; they only feed          *)
(* extract_construct_name.  The number n of a node stands for its byte     *)
(* span (start_byte, end_byte): distinct nodes of one kind have distinct   *)
(* spans.                                                                  *)
(***************************************************************************)
Leaf(kind, text) == [kind |-> kind, text |-> text]

NodeLabels ==
    { [kind |-> "class_definition",
       leaves |-> <<Leaf("class", <<>>), Leaf("identifier", <<"b", "a">>)>>],
      [kind |-> "function_definition",
       leaves |-> <<Leaf("def", <<>>), Leaf("identifier", <<"a">>)>>],
      [kind |-> "import_statement",
       leaves |-> <<Leaf("import", <<>>), Leaf("dotted_name", <<"a">>)>>],
      [kind |-> "block", leaves |-> <<>>] }

\* kinds whose nodes hold leaf tokens only (an import holds no definition)
LeafOnlyKinds == {"import_statement"}

RootLabel(lang) ==
    [kind |-> IF lang = "Python" THEN "module" ELSE "translation_unit",
     leaves |-> <<>>]

RECURSIVE AncestorsOrSelf(_, _)
AncestorsOrSelf(par, n) ==
    IF n = 0 THEN {} ELSE {n} \cup AncestorsOrSelf(par, par[n])

\* the parent arrays of the ordered trees with n nodes, numbered in pre-order
RECURSIVE ParentArrays(_)
ParentArrays(n) ==
    IF n = 1 THEN {<<0>>}
    ELSE UNION { {Append(p, a) : a \in AncestorsOrSelf(p, n - 1)} :
                 p \in ParentArrays(n - 1) }

Trees(lang) ==
    UNION { { t \in { [par |-> p,
                       lab |-> [i \in 1..n |->
                                  IF i = 1 THEN RootLabel(lang) ELSE l[i - 1]]] :
                      p \in ParentArrays(n), l \in [1..(n - 1) -> NodeLabels] } :
              \A m \in 2..n : t.lab[t.par[m]].kind \notin LeafOnlyKinds } :
            n \in 1..MaxNodes }

RECURSIVE SortAscending(_)
\* the members of a set of numbers as an ascending sequence
SortAscending(S) ==
    IF S = {} THEN <<>>
    ELSE LET m == CHOOSE x \in S : \A y \in S : x <= y
         IN <<m>> \o SortAscending(S \ {m})

\* node.child(i) for i in 0..node.child_count(), restricted to inner nodes
Children(t, n) == SortAscending({m \in DOMAIN t.par : t.par[m] = n})

(***************************************************************************)
(* parser.rs: the construct extraction engine                              *)
(***************************************************************************)
\* the first direct child whose kind is "identifier" or "name"
extract_construct_name(t, node) ==
    LET leaves == t.lab[node].leaves
        hits == {i \in DOMAIN leaves :
                    leaves[i].kind = "identifier" \/ leaves[i].kind = "name"}
    IN IF hits = {} THEN None
       ELSE Some(leaves[CHOOSE i \in hits : \A j \in hits : i <= j].text)

\* a variant whose parent reference does not keep the parent's own parent
create_code_construct_with_orphan_parent(t, node, parent_construct) ==
    [node_type  |-> t.lab[node].kind,
     name       |-> extract_construct_name(t, node),
     start_byte |-> node,
     parent     |-> IF parent_construct = None THEN None
                    ELSE Some([Unwrap(parent_construct) EXCEPT !.parent = None]),
     children   |-> <<>>]

create_code_construct_with_parent(t, node, parent_construct) ==
    [node_type  |-> t.lab[node].kind,
     name       |-> extract_construct_name(t, node),
     start_byte |-> node,
     parent     |-> parent_construct,
     children   |-> <<>>]

RECURSIVE extract_constructs_hierarchical(_, _, _, _, _)
RECURSIVE ExtractChildren(_, _, _, _, _)

\* the loop `for i in 0..node.child_count()`: each child appends to `constructs`
ExtractChildren(t, lang, kids, constructs, parent_construct) ==
    IF kids = <<>> THEN constructs
    ELSE ExtractChildren(t, lang, Tail(kids),
            extract_constructs_hierarchical(t, lang, Head(kids), constructs,
                                            parent_construct),
            parent_construct)

\* a variant that loses the enclosing construct below a node that is not
\* allow-listed
extract_constructs_hierarchical_reset(t, lang, node, constructs, parent_construct) ==
    IF Contains(get_supported_node_types(lang), t.lab[node].kind)
    THEN LET construct ==
                 create_code_construct_with_parent(t, node, parent_construct)
             child_constructs ==
                 ExtractChildren(t, lang, Children(t, node), <<>>, Some(construct))
         IN Append(constructs, [construct EXCEPT !.children = child_constructs])
    ELSE ExtractChildren(t, lang, Children(t, node), constructs, None)

\* returns the value of the out-parameter `constructs` after the call
extract_constructs_hierarchical(t, lang, node, constructs, parent_construct) ==
    IF Contains(get_supported_node_types(lang), t.lab[node].kind)
    THEN LET construct ==
                 create_code_construct_with_parent(t, node, parent_construct)
             child_constructs ==
                 ExtractChildren(t, lang, Children(t, node), <<>>, Some(construct))
         IN Append(constructs, [construct EXCEPT !.children = child_constructs])
    ELSE ExtractChildren(t, lang, Children(t, node), constructs, parent_construct)

RECURSIVE flatten_constructs(_)
\* a variant that pushes a construct's children once directly and once more
\* through the recursion
flatten_constructs_twice(constructs) ==
    IF constructs = <<>> THEN <<>>
    ELSE <<Head(constructs)>>
            \o Head(constructs).children
            \o flatten_constructs(Head(constructs).children)
            \o flatten_constructs(Tail(constructs))

\* returns what the call appends to `flattened`
flatten_constructs(constructs) ==
    IF constructs = <<>> THEN <<>>
    ELSE <<Head(constructs)>>
            \o flatten_constructs(Head(constructs).children)
            \o flatten_constructs(Tail(constructs))

extract_constructs(t, lang) ==
    LET root_constructs == extract_constructs_hierarchical(t, lang, 1, <<>>, None)
    IN flatten_constructs(root_constructs)

(***************************************************************************)
(* The regex crate, for the patterns the searches are given here: a        *)
(* pattern is a sequence of characters; "^" at its head anchors it to the  *)
(* start of the name, every other character is a literal, and an unclosed  *)
(* "(" or "[" does not compile.                                            *)
(***************************************************************************)
IsPrefix(p, s) == Len(p) <= Len(s) /\ SubSeq(s, 1, Len(p)) = p

IsSubstring(p, s) ==
    \E k \in 0..(Len(s) - Len(p)) : SubSeq(s, k + 1, k + Len(p)) = p

\* Regex::new(pattern): Ok(regex) is Some(pattern), Err is None
RegexNew(pattern) ==
    IF \E i \in DOMAIN pattern : pattern[i] \in {"(", "["}
    THEN None ELSE Some(pattern)

\* Regex::is_match
is_match(regex, name) ==
    IF regex # <<>> /\ Head(regex) = "^"
    THEN IsPrefix(Tail(regex), name)
    ELSE IsSubstring(regex, name)

(***************************************************************************)
(* search.rs: search by node type                                          *)
(***************************************************************************)
\* a variant that pushes the construct whatever its name
PushIgnoringName(construct, regex, res) == Append(res, construct)

\* the body shared by the four loops: push the construct when its name passes
\* the optional regex; `regex` is Option<Regex>
PushIfNameMatches(construct, regex, res) ==
    IF IsSome(regex)
    THEN IF IsSome(construct.name) /\ is_match(Unwrap(regex), Unwrap(construct.name))
         THEN Append(res, construct) ELSE res
    ELSE Append(res, construct)

\* a variant that does not descend into a construct's children
search_in_children_skipped(construct, node_type, regex, res) == res

RECURSIVE search_in_children(_, _, _, _)
RECURSIVE SearchChildrenLoop(_, _, _, _)

\* `for child in &construct.children` of search_in_children
SearchChildrenLoop(children, node_type, regex, res) ==
    IF children = <<>> THEN res
    ELSE LET child == Head(children)
             r1 == IF child.node_type = node_type
                   THEN PushIfNameMatches(child, regex, res) ELSE res
             r2 == search_in_children(child, node_type, regex, r1)
         IN SearchChildrenLoop(Tail(children), node_type, regex, r2)

search_in_children(construct, node_type, regex, res) ==
    SearchChildrenLoop(construct.children, node_type, regex, res)

RECURSIVE SearchLoop(_, _, _, _)
\* `for construct in &parsed_file.constructs` of search_by_node_type
SearchLoop(constructs, node_type, regex, res) ==
    IF constructs = <<>> THEN res
    ELSE LET construct == Head(constructs)
             r1 == IF construct.node_type = node_type
                   THEN PushIfNameMatches(construct, regex, res) ELSE res
             r2 == search_in_children(construct, node_type, regex, r1)
         IN SearchLoop(Tail(constructs), node_type, regex, r2)

\* a variant that searches without a name filter when the pattern does not
\* compile
search_by_node_type_unfiltered(pf, node_type, name_pattern) ==
    LET regex == IF IsSome(name_pattern)
                 THEN RegexNew(Unwrap(name_pattern)) ELSE None
    IN SearchLoop(pf.constructs, node_type, regex, <<>>)

search_by_node_type(pf, node_type, name_pattern) ==
    IF IsSome(name_pattern) /\ RegexNew(Unwrap(name_pattern)) = None
    THEN <<>>
    ELSE LET regex == IF IsSome(name_pattern)
                      THEN RegexNew(Unwrap(name_pattern)) ELSE None
         IN SearchLoop(pf.constructs, node_type, regex, <<>>)

RECURSIVE search_in_children_multiple(_, _, _, _)
RECURSIVE SearchChildrenLoopMultiple(_, _, _, _)

\* `for child in &construct.children` of search_in_children_multiple
SearchChildrenLoopMultiple(children, node_types, regex, res) ==
    IF children = <<>> THEN res
    ELSE LET child == Head(children)
             r1 == IF Contains(node_types, child.node_type)
                   THEN PushIfNameMatches(child, regex, res) ELSE res
             r2 == search_in_children_multiple(child, node_types, regex, r1)
         IN SearchChildrenLoopMultiple(Tail(children), node_types, regex, r2)

search_in_children_multiple(construct, node_types, regex, res) ==
    SearchChildrenLoopMultiple(construct.children, node_types, regex, res)

RECURSIVE SearchLoopMultiple(_, _, _, _)
\* `for construct in &parsed_file.constructs` of search_by_multiple_node_types
SearchLoopMultiple(constructs, node_types, regex, res) ==
    IF constructs = <<>> THEN res
    ELSE LET construct == Head(constructs)
             r1 == IF Contains(node_types, construct.node_type)
                   THEN PushIfNameMatches(construct, regex, res) ELSE res
             r2 == search_in_children_multiple(construct, node_types, regex, r1)
         IN SearchLoopMultiple(Tail(constructs), node_types, regex, r2)

search_by_multiple_node_types(pf, node_types, name_pattern) ==
    IF IsSome(name_pattern) /\ RegexNew(Unwrap(name_pattern)) = None
    THEN <<>>
    ELSE LET regex == IF IsSome(name_pattern)
                      THEN RegexNew(Unwrap(name_pattern)) ELSE None
         IN SearchLoopMultiple(pf.constructs, node_types, regex, <<>>)

(***************************************************************************)
(* SpecExtract: extraction of one drawn tree, then searches on its result  *)
(***************************************************************************)
\* the languages whose trees are drawn: both have a grammar bound; "C" has
\* function_definition on its allow-list and class_definition not
ExLanguages == {"Python", "C"}

\* the node-type arguments and name patterns the searches are called with
SearchNodeTypes ==
    { <<"function_definition">>,
      <<"class_definition", "function_definition">>,
      <<"import_statement", "block">> }

SearchPatterns ==
    { None, Some(<<"^", "a">>), Some(<<"a">>), Some(<<"(">>) }

NoFile == [file_path |-> 0, language |-> "", constructs |-> <<>>,
           syntax_tree |-> None, file_size_bytes |-> 0]
NoTree == [par |-> <<0>>, lab |-> <<RootLabel("")>>]
NoSearch == [op |-> "none", node_types |-> <<>>, name_pattern |-> None]

ExInit ==
    /\ xpc = "input"
    /\ language \in ExLanguages
    /\ tree \in Trees(language)
    /\ parsed_file = NoFile
    /\ search_args = NoSearch
    /\ results = <<>>

\* parse_file from the parsed tree on: extract, package the ParsedFile
Extract ==
    /\ xpc = "input"
    /\ xpc' = "extracted"
    /\ parsed_file' = [file_path |-> 0, language |-> language,
                       constructs |-> extract_constructs(tree, language),
                       syntax_tree |-> None, file_size_bytes |-> 0]
    /\ UNCHANGED <<language, tree, search_args, results>>
    /\ UNCHANGED <<travVars, conv, det>>

SearchByNodeType ==
    /\ xpc = "extracted"
    /\ \E nts \in SearchNodeTypes, p \in SearchPatterns :
          /\ search_args' = [op |-> "single", node_types |-> <<Head(nts)>>,
                             name_pattern |-> p]
          /\ results' = search_by_node_type(parsed_file, Head(nts), p)
    /\ xpc' = "searched"
    /\ UNCHANGED <<language, tree, parsed_file>>
    /\ UNCHANGED <<travVars, conv, det>>

SearchByMultipleNodeTypes ==
    /\ xpc = "extracted"
    /\ \E nts \in SearchNodeTypes, p \in SearchPatterns :
          /\ search_args' = [op |-> "multiple", node_types |-> nts,
                             name_pattern |-> p]
          /\ results' = search_by_multiple_node_types(parsed_file, nts, p)
    /\ xpc' = "searched"
    /\ UNCHANGED <<language, tree, parsed_file>>
    /\ UNCHANGED <<travVars, conv, det>>

ExNext ==
    \/ Extract
    \/ SearchByNodeType
    \/ SearchByMultipleNodeTypes


(***************************************************************************)
(* Paths and file names.  A path is a sequence of characters, as the code  *)
(* tests it by substring, by its first character and by its extension.     *)
(***************************************************************************)
RECURSIVE LastIndexOf(_, _)
\* the position of the last occurrence of character ch in s, 0 when absent
LastIndexOf(s, ch) ==
    IF s = <<>> THEN 0
    ELSE IF s[Len(s)] = ch THEN Len(s)
    ELSE LastIndexOf(SubSeq(s, 1, Len(s) - 1), ch)

\* Path::file_name: what follows the last separator
FileName(path) == SubSeq(path, LastIndexOf(path, "/") + 1, Len(path))

\* Path::extension: what follows the last "." of the file name; none when the
\* name has no "." or only the one it starts with
Extension(path) ==
    LET name == FileName(path)
        dot == LastIndexOf(name, ".")
    IN IF dot <= 1 THEN None
       ELSE Some(SubSeq(name, dot + 1, Len(name)))

UpperLetters ==
    <<"A", "B", "C", "D", "E", "F", "G", "H", "I", "J", "K", "L", "M",
      "N", "O", "P", "Q", "R", "S", "T", "U", "V", "W", "X", "Y", "Z">>

LowerLetters ==
    <<"a", "b", "c", "d", "e", "f", "g", "h", "i", "j", "k", "l", "m",
      "n", "o", "p", "q", "r", "s", "t", "u", "v", "w", "x", "y", "z">>

\* str::to_lowercase on one ASCII character
LowerChar(ch) ==
    IF \E i \in DOMAIN UpperLetters : UpperLetters[i] = ch
    THEN LowerLetters[CHOOSE i \in DOMAIN UpperLetters : UpperLetters[i] = ch]
    ELSE ch

ToLowercase(s) == [i \in DOMAIN s |-> LowerChar(s[i])]

(***************************************************************************)
(* languages.rs: language detection and grammar lookup                     *)
(***************************************************************************)
Ok(v) == [ok |-> TRUE, v |-> v]
Err(e) == [ok |-> FALSE, v |-> e]

\* the grammars linked in (all language features enabled)
GrammarLanguages ==
    {"Python", "Rust", "JavaScript", "TypeScript", "Java", "C", "Cpp", "Go"}

\* Ok(grammar) or Err(Error::UnsupportedLanguage); a grammar is named by its
\* language tag
get_tree_sitter_language(lang) ==
    IF lang \in GrammarLanguages THEN Ok(lang)
    ELSE Err([kind |-> "UnsupportedLanguage"])

detect_language_by_extension(file_path) ==
    LET ext == Extension(file_path)
        extension == IF IsSome(ext) THEN ToLowercase(Unwrap(ext)) ELSE <<>>
    IN IF ext = None THEN None
       ELSE IF extension \in {<<"p", "y">>, <<"p", "y", "w">>, <<"p", "y", "i">>}
            THEN Some("Python")
       ELSE IF extension \in {<<"r", "s">>}
            THEN Some("Rust")
       ELSE IF extension \in {<<"j", "s">>, <<"m", "j", "s">>, <<"c", "j", "s">>}
            THEN Some("JavaScript")
       ELSE IF extension \in {<<"t", "s">>, <<"m", "t", "s">>, <<"c", "t", "s">>}
            THEN Some("TypeScript")
       ELSE IF extension \in {<<"j", "a", "v", "a">>}
            THEN Some("Java")
       ELSE IF extension \in {<<"c">>, <<"h">>}
            THEN Some("C")
       ELSE IF extension \in {<<"c", "p", "p">>, <<"c", "c">>, <<"c", "x", "x">>, <<"c", "+", "+">>, <<"h", "p", "p">>, <<"h", "h">>, <<"h", "x", "x">>, <<"h", "+", "+">>}
            THEN Some("Cpp")
       ELSE IF extension \in {<<"g", "o">>}
            THEN Some("Go")
       ELSE IF extension \in {<<"c", "s">>}
            THEN Some("CSharp")
       ELSE IF extension \in {<<"p", "h", "p">>, <<"p", "h", "t", "m", "l">>, <<"p", "h", "p", "3">>, <<"p", "h", "p", "4">>, <<"p", "h", "p", "5">>, <<"p", "h", "p", "s">>}
            THEN Some("Php")
       ELSE IF extension \in {<<"r", "b">>, <<"r", "b", "w">>}
            THEN Some("Ruby")
       ELSE IF extension \in {<<"s", "w", "i", "f", "t">>}
            THEN Some("Swift")
       ELSE IF extension \in {<<"k", "t">>, <<"k", "t", "s">>}
            THEN Some("Kotlin")
       ELSE IF extension \in {<<"s", "c", "a", "l", "a">>, <<"s", "c">>}
            THEN Some("Scala")
       ELSE IF extension \in {<<"h", "s">>, <<"l", "h", "s">>}
            THEN Some("Haskell")
       ELSE IF extension \in {<<"l", "u", "a">>}
            THEN Some("Lua")
       ELSE IF extension \in {<<"p", "l">>, <<"p", "m">>, <<"t">>, <<"p", "o", "d">>}
            THEN Some("Perl")
       ELSE IF extension \in {<<"r">>, <<"R">>}
            THEN Some("R")
       ELSE IF extension \in {<<"s", "h">>, <<"b", "a", "s", "h">>, <<"z", "s", "h">>, <<"f", "i", "s", "h">>}
            THEN Some("Bash")
       ELSE IF extension \in {<<"p", "s", "1">>, <<"p", "s", "m", "1">>, <<"p", "s", "d", "1">>}
            THEN Some("PowerShell")
       ELSE IF extension \in {<<"h", "t", "m", "l">>, <<"h", "t", "m">>, <<"x", "h", "t", "m", "l">>}
            THEN Some("Html")
       ELSE IF extension \in {<<"c", "s", "s">>}
            THEN Some("Css")
       ELSE IF extension \in {<<"s", "q", "l">>}
            THEN Some("Sql")
       ELSE IF extension \in {<<"j", "s", "o", "n">>}
            THEN Some("Json")
       ELSE IF extension \in {<<"y", "a", "m", "l">>, <<"y", "m", "l">>}
            THEN Some("Yaml")
       ELSE IF extension \in {<<"t", "o", "m", "l">>}
            THEN Some("Toml")
       ELSE IF extension \in {<<"x", "m", "l">>, <<"x", "s", "d">>, <<"x", "s", "l">>, <<"x", "s", "l", "t">>}
            THEN Some("Xml")
       ELSE None

\* A file's content as the detectors see it: `shebang` is None when the first
\* line does not start with "#!", else the set of interpreter words the
\* lower-cased first line contains; `has` is the set of marker strings the
\* lower-cased content contains.
detect_language_by_shebang(content) ==
    IF content.shebang = None THEN None
    ELSE LET shebang == Unwrap(content.shebang)
         IN IF "python" \in shebang THEN Some("Python")
            ELSE IF "node" \in shebang THEN Some("JavaScript")
            ELSE IF "bash" \in shebang \/ "/bin/sh" \in shebang THEN Some("Bash")
            ELSE IF "ruby" \in shebang THEN Some("Ruby")
            ELSE IF "perl" \in shebang THEN Some("Perl")
            ELSE IF "php" \in shebang THEN Some("Php")
            ELSE None

detect_language_by_content(content) ==
    LET content_lower == content.has
    IN IF "def " \in content_lower /\ "import " \in content_lower
       THEN Some("Python")
       ELSE IF "fn " \in content_lower /\ "use " \in content_lower
       THEN Some("Rust")
       ELSE IF "function " \in content_lower /\ "var " \in content_lower
       THEN Some("JavaScript")
       ELSE IF "public class " \in content_lower /\ "import " \in content_lower
       THEN Some("Java")
       ELSE IF "#include" \in content_lower /\ "int main" \in content_lower
       THEN Some("C")
       ELSE None

\* a variant that trusts a shebang more than the extension
detect_language_shebang_first(file_path, content) ==
    IF IsSome(content) /\ IsSome(detect_language_by_shebang(Unwrap(content)))
    THEN detect_language_by_shebang(Unwrap(content))
    ELSE IF IsSome(detect_language_by_extension(file_path))
    THEN detect_language_by_extension(file_path)
    ELSE IF IsSome(content)
    THEN detect_language_by_content(Unwrap(content))
    ELSE None

\* `content` is Option<&str>
detect_language(file_path, content) ==
    IF IsSome(detect_language_by_extension(file_path))
    THEN detect_language_by_extension(file_path)
    ELSE IF IsSome(content)
    THEN IF IsSome(detect_language_by_shebang(Unwrap(content)))
         THEN detect_language_by_shebang(Unwrap(content))
         ELSE IF IsSome(detect_language_by_content(Unwrap(content)))
         THEN detect_language_by_content(Unwrap(content))
         ELSE None
    ELSE None

(***************************************************************************)
(* The directory under the root.  The walker yields the entries below in   *)
(* this order; a traversal sees a sub-list of them.  An entry is           *)
(*   err       the walker reports an error instead of the entry            *)
(*   path      the entry's path, the root "r" included                     *)
(*   depth     1 for an entry directly in the root                         *)
(*   is_dir    a directory                                                 *)
(*   size      metadata().len(), None when the metadata cannot be read     *)
(*   readable  whether read_to_string succeeds                             *)
(*   content   what the language detectors see of the content              *)
(*   parse_ok  whether the grammar engine returns a tree                   *)
(*   tree      the tree the file's own grammar produces                    *)
(***************************************************************************)
BytesPerMb == 1048576

PlainContent == [shebang |-> None, has |-> {}]
PythonScript == [shebang |-> Some({"python"}), has |-> {"def ", "import "}]

\* class a: (block:) def a -- one construct nested in another
NestedPythonTree ==
    [par |-> <<0, 1, 2, 3>>,
     lab |-> << [kind |-> "module", leaves |-> <<>>],
                [kind |-> "class_definition",
                 leaves |-> <<Leaf("class", <<>>), Leaf("identifier", <<"b", "a">>)>>],
                [kind |-> "block", leaves |-> <<>>],
                [kind |-> "function_definition",
                 leaves |-> <<Leaf("def", <<>>), Leaf("identifier", <<"a">>)>>] >>]

RustTree ==
    [par |-> <<0, 1>>,
     lab |-> << [kind |-> "source_file", leaves |-> <<>>],
                [kind |-> "function_item",
                 leaves |-> <<Leaf("fn", <<>>), Leaf("identifier", <<"a">>)>>] >>]

EmptyTree(root_kind) ==
    [par |-> <<0>>, lab |-> <<[kind |-> root_kind, leaves |-> <<>>]>>]

File(path, depth, size, readable, content, parse_ok, t) ==
    [err |-> FALSE, path |-> path, depth |-> depth, is_dir |-> FALSE,
     size |-> Some(size), readable |-> readable, content |-> content,
     parse_ok |-> parse_ok, tree |-> t]

Catalogue ==
    << File(<<"r", "/", "a", ".", "p", "y">>, 1, 10, TRUE, PythonScript, TRUE,
            NestedPythonTree),
       File(<<"r", "/", "b", ".", "r", "b">>, 1, 10, TRUE, PlainContent, TRUE,
            EmptyTree("program")),
       File(<<"r", "/", "c", ".", "R", "S">>, 1, BytesPerMb + 20, TRUE,
            PlainContent, TRUE, RustTree),
       File(<<"r", "/", "d", ".", "x", "y", "z">>, 1, 10, TRUE, PythonScript, TRUE,
            EmptyTree("module")),
       File(<<"r", "/", "e", ".", "p", "y">>, 1, 10, FALSE, PlainContent, TRUE,
            EmptyTree("module")),
       File(<<"r", "/", "t", "/", "f", ".", "p", "y">>, 2, 10, TRUE, PlainContent,
            FALSE, EmptyTree("module")),
       [err |-> TRUE, path |-> <<"r", "/", "u">>, depth |-> 1, is_dir |-> FALSE,
        size |-> None, readable |-> FALSE, content |-> PlainContent,
        parse_ok |-> FALSE, tree |-> EmptyTree("")] >>

RECURSIVE SubLists(_, _)
\* the sub-lists (order kept) of at most k members of s
SubLists(s, k) ==
    IF s = <<>> \/ k = 0 THEN {<<>>}
    ELSE SubLists(Tail(s), k)
            \cup {<<Head(s)>> \o r : r \in SubLists(Tail(s), k - 1)}

\* the entry of the directory at `path`
EntryAt(path) == CHOOSE e \in Range(fs) : e.path = path

(***************************************************************************)
(* parser.rs: candidate enumeration                                        *)
(***************************************************************************)
is_hidden_file(path) ==
    LET name == FileName(path)
    IN name # <<>> /\ Head(name) = "."

\* a variant that looks for the patterns in the file name alone
should_ignore_file_by_name(path, ignore_patterns) ==
    \E i \in DOMAIN ignore_patterns :
        IsSubstring(ignore_patterns[i], FileName(path))

should_ignore_file(path, ignore_patterns) ==
    \E i \in DOMAIN ignore_patterns : IsSubstring(ignore_patterns[i], path)

\* lines 276-302: whether the walked entry is pushed to `files`
CollectKeeps(entry, opts) ==
    /\ ~entry.is_dir
    /\ ~(~opts.include_hidden_files /\ is_hidden_file(entry.path))
    /\ ~should_ignore_file(entry.path, opts.ignore_patterns)
    /\ ~(IsSome(entry.size)
            /\ (Unwrap(entry.size) \div BytesPerMb) > opts.max_file_size_mb)
    /\ IsSome(detect_language_by_extension(entry.path))

RECURSIVE CollectLoop(_, _, _)
\* a variant that skips an entry the walker fails on
CollectLoopSkippingErrors(walked, opts, files) ==
    IF walked = <<>> THEN Ok(files)
    ELSE CollectLoop(Tail(walked), opts,
            IF ~Head(walked).err /\ CollectKeeps(Head(walked), opts)
            THEN Append(files, Head(walked).path) ELSE files)

\* `for entry in walker`: Err(Error::Io) at the first entry the walker fails
\* on, else Ok(files)
CollectLoop(walked, opts, files) ==
    IF walked = <<>> THEN Ok(files)
    ELSE IF Head(walked).err THEN Err([kind |-> "Io"])
    ELSE CollectLoop(Tail(walked), opts,
            IF CollectKeeps(Head(walked), opts)
            THEN Append(files, Head(walked).path) ELSE files)

\* WalkDir::new(root) or WalkDir::new(root).max_depth(1)
Walker(dir, opts) ==
    IF opts.recursive THEN dir
    ELSE SelectSeq(dir, LAMBDA e : e.depth <= 1)

collect_files(dir, opts) == CollectLoop(Walker(dir, opts), opts, <<>>)

\* the closure of files.retain in collect_files_with_filter
FilterKeeps(path, filter) ==
    /\ IsSome(filter.extensions) =>
          /\ IsSome(Extension(path))
          /\ Contains(Unwrap(filter.extensions), ToLowercase(Unwrap(Extension(path))))
    /\ IsSome(filter.languages) =>
          /\ IsSome(detect_language_by_extension(path))
          /\ Contains(Unwrap(filter.languages),
                      Unwrap(detect_language_by_extension(path)))
    /\ IsSome(EntryAt(path).size) =>
          /\ IsSome(filter.min_size_bytes) =>
                ~(Unwrap(EntryAt(path).size) < Unwrap(filter.min_size_bytes))
          /\ IsSome(filter.max_size_bytes) =>
                ~(Unwrap(EntryAt(path).size) > Unwrap(filter.max_size_bytes))
    /\ IsSome(filter.custom_predicate) => path \in Unwrap(filter.custom_predicate)

collect_files_with_filter(dir, opts, filter) ==
    LET files == collect_files(dir, opts)
    IN IF ~files.ok THEN files
       ELSE Ok(SelectSeq(files.v, LAMBDA path : FilterKeeps(path, filter)))

(***************************************************************************)
(* parser.rs: the parser pool                                              *)
(***************************************************************************)
\* tree_sitter::Language::name(): present for grammars built with ABI 15 or
\* later, absent (None) for older ones
GrammarName(grammar) == IF ts_named THEN Some(grammar) ELSE None

\* Ok([parsers, index]): the pool after the call and the position of the
\* parser handed out; Err when no grammar is bound to `lang`.  Every pooled
\* parser holds a language (it is pushed after set_language succeeded).
get_parser(pool, lang) ==
    LET ts_language == get_tree_sitter_language(lang)
        hits == {i \in DOMAIN pool :
                    /\ IsSome(pool[i].language)
                    /\ GrammarName(ts_language.v)
                          = GrammarName(Unwrap(pool[i].language))}
    IN IF ~ts_language.ok THEN Err(ts_language.v)
       ELSE IF hits # {}
       THEN Ok([parsers |-> pool,
                index |-> CHOOSE i \in hits : \A j \in hits : i <= j])
       ELSE Ok([parsers |-> Append(pool, [language |-> Some(ts_language.v)]),
                index |-> Len(pool) + 1])

(***************************************************************************)
(* parser.rs: parse_file                                                   *)
(***************************************************************************)
\* Parser::parse: the tree of the file under the grammar the parser holds; a
\* file parsed with another language's grammar yields an error tree
GrammarParse(parser, entry, lang) ==
    IF ~entry.parse_ok THEN None
    ELSE IF parser.language = Some(lang) THEN Some(entry.tree)
    ELSE Some(EmptyTree("ERROR"))

parse_file(parser, file_path, lang, include_syntax_tree) ==
    LET entry == EntryAt(file_path)
        ts_language == get_tree_sitter_language(lang)
        parsed == GrammarParse(parser, entry, lang)
    IN IF ~entry.readable THEN Err([kind |-> "Io"])
       ELSE IF ~ts_language.ok THEN Err(ts_language.v)
       ELSE IF parsed = None THEN Err([kind |-> "Parse"])
       ELSE Ok([file_path |-> file_path,
                relative_path |-> FileName(file_path),
                language |-> lang,
                constructs |-> extract_constructs(Unwrap(parsed), lang),
                syntax_tree |-> IF include_syntax_tree THEN parsed ELSE None,
                file_size_bytes |-> Unwrap(entry.size)])

(***************************************************************************)
(* Spec: one traversal                                                     *)
(***************************************************************************)
\* candidate entries of the directory a traversal walks
MaxEntries == 3
\* the largest max_concurrent_files a traversal is given
MaxConcurrent == 2

\* the ParseOptions the traversals are called with: a concurrency bound with
\* a detection mode and an enumeration policy
OptionsSet ==
    { [max_concurrent_files |-> m,
       include_hidden_files |-> ~c.policy,
       max_file_size_mb |-> IF c.policy THEN 1 ELSE 0,
       recursive |-> c.policy,
       ignore_patterns |-> IF c.policy THEN << <<"b", "u", "i", "l", "d">> >>
                           ELSE <<>>,
       language_detection |-> c.mode,
       include_syntax_tree |-> ~c.policy,
       enable_caching |-> TRUE,
       thread_pool_size |-> None] :
      m \in 0..MaxConcurrent,
      c \in { [mode |-> "ByExtension", policy |-> TRUE],
              [mode |-> "Combined", policy |-> TRUE],
              [mode |-> "ByContent", policy |-> FALSE] } }

NoFilter ==
    [extensions |-> None, languages |-> None, min_size_bytes |-> None,
     max_size_bytes |-> None, custom_predicate |-> None]

\* the FileFilters parse_directory_with_filter is called with
FilterSet ==
    { NoFilter,
      [NoFilter EXCEPT !.extensions = Some(<< <<"p", "y">> >>),
                       !.max_size_bytes = Some(10)],
      [NoFilter EXCEPT !.languages = Some(<<"Rust", "Ruby">>),
                       !.min_size_bytes = Some(15)],
      [NoFilter EXCEPT !.custom_predicate =
                          Some({Catalogue[1].path, Catalogue[3].path})],
      [NoFilter EXCEPT !.extensions = Some(<< <<"R", "S">> >>)] }

NoProject == [root_path |-> "", files |-> <<>>, total_files_processed |-> 0,
              language_distribution |-> <<>>, error_files |-> <<>>]

TravInit ==
    /\ pc = "call"
    /\ root_exists \in BOOLEAN
    /\ fs \in IF root_exists THEN SubLists(Catalogue, MaxEntries) ELSE {<<>>}
    /\ ts_named \in BOOLEAN
    /\ api = "none"
    /\ options \in OptionsSet
    /\ file_filter = None
    /\ files_to_parse = <<>>
    /\ chunk_size = 0
    /\ chunk_start = 1
    /\ tasks = <<>>
    /\ lock = 0
    /\ parsers = <<>>
    /\ parsed_files = <<>>
    /\ error_files = <<>>
    /\ ret = None
    /\ completed = <<>>
    /\ prev = None
    /\ polls = 0

\* a variant that enumerates without checking that the root exists
EnterSkippingRootCheck(collected) ==
    /\ pc = "call"
    /\ IF ~collected.ok
       THEN /\ ret' = Some(Err(collected.v))
            /\ pc' = "returned"
            /\ UNCHANGED files_to_parse
       ELSE /\ files_to_parse' = collected.v
            /\ pc' = "parse_files_parallel"
            /\ UNCHANGED ret

\* lines 143-150 and 220-227: the root check and the enumeration
Enter(collected) ==
    /\ pc = "call"
    /\ IF ~root_exists
       THEN /\ ret' = Some(Err([kind |-> "Io"]))
            /\ pc' = "returned"
            /\ UNCHANGED files_to_parse
       ELSE IF ~collected.ok
       THEN /\ ret' = Some(Err(collected.v))
            /\ pc' = "returned"
            /\ UNCHANGED files_to_parse
       ELSE /\ files_to_parse' = collected.v
            /\ pc' = "parse_files_parallel"
            /\ UNCHANGED ret

parse_directory ==
    /\ Enter(collect_files(fs, options))
    /\ api' = "parse_directory"
    /\ UNCHANGED <<exVars, conv, det, completed, prev, polls>>
    /\ UNCHANGED <<root_exists, fs, ts_named, options, file_filter, chunk_size,
                   chunk_start, tasks, lock, parsers, parsed_files, error_files>>

parse_directory_with_filter ==
    /\ \E filter \in FilterSet :
          /\ Enter(collect_files_with_filter(fs, options, filter))
          /\ file_filter' = Some(filter)
    /\ api' = "parse_directory_with_filter"
    /\ UNCHANGED <<exVars, conv, det, completed, prev, polls>>
    /\ UNCHANGED <<root_exists, fs, ts_named, options, chunk_size,
                   chunk_start, tasks, lock, parsers, parsed_files, error_files>>

\* the executor has polled the future of the call, which took one step
Polled == polls' = 1 - polls

\* std::cmp::max
Max(a, b) == IF a >= b THEN a ELSE b
Min(a, b) == IF a <= b THEN a ELSE b

\* line 389; the division faults when max_concurrent_files is 0
ChunkSize(n_files, max_concurrent_files) ==
    Max(1, n_files \div max_concurrent_files)

\* a variant in which the pool outlives the call when enable_caching is set
PartitionKeepingPool ==
    /\ pc = "parse_files_parallel"
    /\ IF options.max_concurrent_files = 0
       THEN /\ pc' = "panicked"
            /\ UNCHANGED chunk_size
       ELSE /\ chunk_size' = Max(1, Len(files_to_parse)
                                        \div options.max_concurrent_files)
            /\ pc' = "chunks"
    /\ chunk_start' = 1
    /\ parsers' = IF options.enable_caching THEN parsers ELSE <<>>
    /\ parsed_files' = <<>>
    /\ error_files' = <<>>
    /\ Polled
    /\ UNCHANGED <<exVars, conv, det, completed, prev>>
    /\ UNCHANGED <<root_exists, fs, ts_named, api, options, file_filter,
                   files_to_parse, tasks, lock, ret>>

\* lines 389-393: the head of parse_files_parallel
Partition ==
    /\ pc = "parse_files_parallel"
    /\ IF options.max_concurrent_files = 0
       THEN /\ pc' = "panicked"
            /\ UNCHANGED chunk_size
       ELSE /\ chunk_size' = ChunkSize(Len(files_to_parse),
                                       options.max_concurrent_files)
            /\ pc' = "chunks"
    /\ chunk_start' = 1
    /\ parsers' = <<>>
    /\ parsed_files' = <<>>
    /\ error_files' = <<>>
    /\ Polled
    /\ UNCHANGED <<exVars, conv, det, completed, prev>>
    /\ UNCHANGED <<root_exists, fs, ts_named, api, options, file_filter,
                   files_to_parse, tasks, lock, ret>>

NewTask(path) ==
    [path |-> path, pc |-> "start", language |-> None, parser |-> 0,
     result |-> None]

\* lines 395-444: the next chunk of files.chunks(chunk_size), one future per
\* file, all handed to join_all
LaunchChunk ==
    /\ pc = "chunks"
    /\ chunk_start <= Len(files_to_parse)
    /\ tasks' = [k \in 1..(Min(chunk_start + chunk_size - 1, Len(files_to_parse))
                            - chunk_start + 1) |->
                    NewTask(files_to_parse[chunk_start + k - 1])]
    /\ pc' = "join_all"
    /\ Polled
    /\ UNCHANGED <<exVars, conv, det, completed, prev>>
    /\ UNCHANGED <<root_exists, fs, ts_named, api, options, file_filter,
                   files_to_parse, chunk_size, chunk_start, lock, parsers,
                   parsed_files, error_files, ret>>

FileError(path, error_type, message) ==
    [file_path |-> path, error_type |-> error_type, message |-> message]

\* lines 404-415
DetectTaskLanguage(path, opts) ==
    IF opts.language_detection = "ByExtension"
    THEN detect_language_by_extension(path)
    ELSE IF opts.language_detection = "Combined"
    THEN IF EntryAt(path).readable
         THEN detect_language(path, Some(EntryAt(path).content))
         ELSE detect_language_by_extension(path)
    ELSE detect_language_by_extension(path)

taskVarsUnchanged ==
    UNCHANGED <<xpc, language, tree, parsed_file, search_args, results,
                root_exists, fs, ts_named, api, options, file_filter,
                files_to_parse, chunk_size, chunk_start, parsed_files,
                error_files, ret, pc, conv, det, prev>>

\* a future that returns (lines 421, 429-434, 437) has finished: its path
\* joins `completed`
Completes(i) ==
    completed' = IF tasks'[i].pc = "done" THEN Append(completed, tasks[i].path)
                 ELSE completed

\* lines 401-417, 436-442: detect the language; without one the task ends
TaskDetect(i) ==
    /\ pc = "join_all"
    /\ tasks[i].pc = "start"
    /\ LET lang == DetectTaskLanguage(tasks[i].path, options)
       IN tasks' = [tasks EXCEPT ![i] =
             IF IsSome(lang)
             THEN [@ EXCEPT !.language = lang, !.pc = "lock"]
             ELSE [@ EXCEPT !.pc = "done",
                            !.result = Some(Err(FileError(tasks[i].path,
                                "UnsupportedLanguage",
                                "Could not detect language")))]]
    /\ UNCHANGED <<lock, parsers>>
    /\ Completes(i)
    /\ Polled
    /\ taskVarsUnchanged

\* a variant in which a task enters get_parser without waiting for the mutex
TaskLockWithoutMutex(i) ==
    /\ pc = "join_all"
    /\ tasks[i].pc = "lock"
    /\ lock' = i
    /\ tasks' = [tasks EXCEPT ![i].pc = "get_parser"]
    /\ UNCHANGED parsers
    /\ Completes(i)
    /\ Polled
    /\ taskVarsUnchanged

\* line 418: parsers.lock().await
TaskLock(i) ==
    /\ pc = "join_all"
    /\ tasks[i].pc = "lock"
    /\ lock = 0
    /\ lock' = i
    /\ tasks' = [tasks EXCEPT ![i].pc = "get_parser"]
    /\ UNCHANGED parsers
    /\ Completes(i)
    /\ Polled
    /\ taskVarsUnchanged

\* a variant in which the guard is dropped as soon as get_parser returned
TaskGetParserThenUnlock(i) ==
    /\ pc = "join_all"
    /\ tasks[i].pc = "get_parser"
    /\ LET got == get_parser(parsers, Unwrap(tasks[i].language))
       IN IF got.ok
          THEN /\ parsers' = got.v.parsers
               /\ tasks' = [tasks EXCEPT ![i].parser = got.v.index,
                                         ![i].pc = "read"]
          ELSE /\ tasks' = [tasks EXCEPT
                    ![i].pc = "done",
                    ![i].result = Some(Err(FileError(tasks[i].path, "ParseError",
                                        "Failed to get a suitable parser")))]
               /\ UNCHANGED parsers
    /\ lock' = 0
    /\ Completes(i)
    /\ Polled
    /\ taskVarsUnchanged

\* lines 419-426: get_parser under the lock; on Err the task returns and the
\* guard is dropped
TaskGetParser(i) ==
    /\ pc = "join_all"
    /\ tasks[i].pc = "get_parser"
    /\ LET got == get_parser(parsers, Unwrap(tasks[i].language))
       IN IF got.ok
          THEN /\ parsers' = got.v.parsers
               /\ tasks' = [tasks EXCEPT ![i].parser = got.v.index,
                                         ![i].pc = "read"]
               /\ UNCHANGED lock
          ELSE /\ tasks' = [tasks EXCEPT
                    ![i].pc = "done",
                    ![i].result = Some(Err(FileError(tasks[i].path, "ParseError",
                                        "Failed to get a suitable parser")))]
               /\ lock' = 0
               /\ UNCHANGED parsers
    /\ Completes(i)
    /\ Polled
    /\ taskVarsUnchanged

\* the FileError of lines 430-434 or the ParsedFile of line 429
TaskOutcome(i) ==
    LET parsed == parse_file(parsers[tasks[i].parser], tasks[i].path,
                             Unwrap(tasks[i].language),
                             options.include_syntax_tree)
    IN IF parsed.ok THEN Ok(parsed.v)
       ELSE Err(FileError(tasks[i].path, "ParseError", parsed.v.kind))

\* a variant in which a task whose read failed ends without giving the pool
\* lock back
TaskReadKeepingLock(i) ==
    /\ pc = "join_all"
    /\ tasks[i].pc = "read"
    /\ IF EntryAt(tasks[i].path).readable
       THEN tasks' = [tasks EXCEPT ![i].pc = "parse"]
       ELSE tasks' = [tasks EXCEPT ![i].pc = "done",
                                   ![i].result = Some(TaskOutcome(i))]
    /\ UNCHANGED <<lock, parsers>>
    /\ Completes(i)
    /\ Polled
    /\ taskVarsUnchanged

\* lines 428, 54-56: the read of parse_file; when it fails parse_file returns
\* and the task ends
TaskRead(i) ==
    /\ pc = "join_all"
    /\ tasks[i].pc = "read"
    /\ IF EntryAt(tasks[i].path).readable
       THEN /\ tasks' = [tasks EXCEPT ![i].pc = "parse"]
            /\ UNCHANGED lock
       ELSE /\ tasks' = [tasks EXCEPT ![i].pc = "done",
                                      ![i].result = Some(TaskOutcome(i))]
            /\ lock' = 0
    /\ UNCHANGED parsers
    /\ Completes(i)
    /\ Polled
    /\ taskVarsUnchanged

\* lines 58-99, 428-435: parse, extract, package; the guard is dropped as the
\* task returns
TaskParse(i) ==
    /\ pc = "join_all"
    /\ tasks[i].pc = "parse"
    /\ tasks' = [tasks EXCEPT ![i].pc = "done",
                              ![i].result = Some(TaskOutcome(i))]
    /\ lock' = 0
    /\ UNCHANGED parsers
    /\ Completes(i)
    /\ Polled
    /\ taskVarsUnchanged

RECURSIVE PushResults(_, _, _)
\* a variant that stops at the first failed task of the chunk
PushResultsUntilError(ts, which, acc) ==
    IF ts = <<>> \/ ~Unwrap(Head(ts).result).ok THEN acc
    ELSE PushResults(Tail(ts), which,
            IF which THEN Append(acc, Unwrap(Head(ts).result).v) ELSE acc)

\* lines 447-452: the value of `parsed_files` (which = TRUE) or `error_files`
\* (which = FALSE) after the results of one chunk are pushed in order
PushResults(ts, which, acc) ==
    IF ts = <<>> THEN acc
    ELSE PushResults(Tail(ts), which,
            IF Unwrap(Head(ts).result).ok = which
            THEN Append(acc, Unwrap(Head(ts).result).v) ELSE acc)

\* a variant that moves on to the next chunk without awaiting the tasks in
\* flight: only the results already there are pushed
JoinChunkWithoutWaiting ==
    /\ pc = "join_all"
    /\ LET finished == SelectSeq(tasks, LAMBDA t : t.pc = "done")
       IN /\ parsed_files' = PushResults(finished, TRUE, parsed_files)
          /\ error_files' = PushResults(finished, FALSE, error_files)
    /\ chunk_start' = chunk_start + chunk_size
    /\ tasks' = <<>>
    /\ lock' = 0
    /\ pc' = "chunks"
    /\ Polled
    /\ UNCHANGED <<exVars, conv, det, completed, prev>>
    /\ UNCHANGED <<root_exists, fs, ts_named, api, options, file_filter,
                   files_to_parse, chunk_size, parsers, ret>>

\* a variant that pushes the results of a chunk in the order in which its
\* tasks finished
JoinChunkAsCompleted ==
    /\ pc = "join_all"
    /\ \A i \in DOMAIN tasks : tasks[i].pc = "done"
    /\ LET done == SubSeq(completed, Len(completed) - Len(tasks) + 1,
                          Len(completed))
           finished == [k \in DOMAIN done |->
                          tasks[CHOOSE i \in DOMAIN tasks :
                                   tasks[i].path = done[k]]]
       IN /\ parsed_files' = PushResults(finished, TRUE, parsed_files)
          /\ error_files' = PushResults(finished, FALSE, error_files)
    /\ chunk_start' = chunk_start + chunk_size
    /\ tasks' = <<>>
    /\ pc' = "chunks"
    /\ Polled
    /\ UNCHANGED <<exVars, conv, det, completed, prev>>
    /\ UNCHANGED <<root_exists, fs, ts_named, api, options, file_filter,
                   files_to_parse, chunk_size, lock, parsers, ret>>

\* lines 446-453: join_all has every result of the chunk
JoinChunk ==
    /\ pc = "join_all"
    /\ \A i \in DOMAIN tasks : tasks[i].pc = "done"
    /\ parsed_files' = PushResults(tasks, TRUE, parsed_files)
    /\ error_files' = PushResults(tasks, FALSE, error_files)
    /\ chunk_start' = chunk_start + chunk_size
    /\ tasks' = <<>>
    /\ pc' = "chunks"
    /\ Polled
    /\ UNCHANGED <<exVars, conv, det, completed, prev>>
    /\ UNCHANGED <<root_exists, fs, ts_named, api, options, file_filter,
                   files_to_parse, chunk_size, lock, parsers, ret>>

RECURSIVE LanguageDistribution(_, _)
\* lines 159-162: *map.entry(language).or_insert(0) += 1 for each file; the
\* map is a function on the languages that have an entry
LanguageDistribution(files, map) ==
    IF files = <<>> THEN map
    ELSE LanguageDistribution(Tail(files),
            IF Head(files).language \in DOMAIN map
            THEN [map EXCEPT ![Head(files).language] = @ + 1]
            ELSE [l \in DOMAIN map \cup {Head(files).language} |->
                    IF l \in DOMAIN map THEN map[l] ELSE 1])

\* a variant that counts the failed files as processed
BuildProjectCountingErrors(files, errors) ==
    [root_path |-> "r",
     files |-> files,
     total_files_processed |-> Len(files) + Len(errors),
     language_distribution |-> LanguageDistribution(files, <<>>),
     error_files |-> errors]

\* lines 157-170 and 232-246
BuildProject(files, errors) ==
    [root_path |-> "r",
     files |-> files,
     total_files_processed |-> Len(files),
     language_distribution |-> LanguageDistribution(files, <<>>),
     error_files |-> errors]

\* lines 455, 157-170: the chunk loop is over; aggregate and return
Aggregate ==
    /\ pc = "chunks"
    /\ chunk_start > Len(files_to_parse)
    /\ ret' = Some(Ok(BuildProject(parsed_files, error_files)))
    /\ pc' = "returned"
    /\ Polled
    /\ UNCHANGED <<exVars, conv, det, completed, prev>>
    /\ UNCHANGED <<root_exists, fs, ts_named, api, options, file_filter,
                   files_to_parse, chunk_size, chunk_start, tasks, lock,
                   parsers, parsed_files, error_files>>

\* the ParseOptions of a second call: those of the first with one of the two
\* fields no line of the crate reads (lib.rs 485, 487) set otherwise
OtherSettings(opts) ==
    { [opts EXCEPT !.enable_caching = ~@],
      [opts EXCEPT !.thread_pool_size = Some(4)] }

\* the caller calls the entry point that returned once more, on the same
\* directory and with the same filter (lines 143-150, 220-227).  The locals of
\* the call are new; `parsers` still shows the pool of the call that
\* returned until line 393 of the new call creates its own.
SecondCall ==
    /\ pc = "returned"
    /\ prev = None
    /\ prev' = Some([options |-> options, ret |-> Unwrap(ret),
                     parsers |-> parsers])
    /\ \E opts \in OtherSettings(options) :
          /\ options' = opts
          /\ LET collected ==
                    IF api = "parse_directory" THEN collect_files(fs, opts)
                    ELSE collect_files_with_filter(fs, opts, Unwrap(file_filter))
             IN IF ~root_exists
                THEN /\ ret' = Some(Err([kind |-> "Io"]))
                     /\ pc' = "returned"
                     /\ files_to_parse' = <<>>
                ELSE IF ~collected.ok
                THEN /\ ret' = Some(Err(collected.v))
                     /\ pc' = "returned"
                     /\ files_to_parse' = <<>>
                ELSE /\ files_to_parse' = collected.v
                     /\ pc' = "parse_files_parallel"
                     /\ ret' = None
    /\ chunk_size' = 0
    /\ chunk_start' = 1
    /\ parsed_files' = <<>>
    /\ error_files' = <<>>
    /\ completed' = <<>>
    /\ UNCHANGED <<exVars, conv, det, polls>>
    /\ UNCHANGED <<root_exists, fs, ts_named, api, file_filter, tasks, lock,
                   parsers>>

\* the traversal variables while SpecExtract runs
TravIdle ==
    /\ pc = "idle"
    /\ root_exists = FALSE
    /\ fs = <<>>
    /\ ts_named = TRUE
    /\ api = "none"
    /\ options = CHOOSE o \in OptionsSet : TRUE
    /\ file_filter = None
    /\ files_to_parse = <<>>
    /\ chunk_size = 0
    /\ chunk_start = 1
    /\ tasks = <<>>
    /\ lock = 0
    /\ parsers = <<>>
    /\ parsed_files = <<>>
    /\ error_files = <<>>
    /\ ret = None
    /\ completed = <<>>
    /\ prev = None
    /\ polls = 0

\* no conversion called
NoConversion ==
    [pc |-> "idle", lang_str |-> <<>>, tag |-> None, display |-> <<>>,
     again |-> None]

\* the conversion variable while another specification runs
ConvIdle == conv = NoConversion

\* detect_language not called
NoDetection == [pc |-> "idle", file_path |-> <<>>, content |-> None,
                result |-> None]

\* the detection variable while another specification runs
DetIdle == det = NoDetection

\* the extraction variables while Spec runs
ExIdle ==
    /\ xpc = "idle"
    /\ language = ""
    /\ tree = NoTree
    /\ parsed_file = NoFile
    /\ search_args = NoSearch
    /\ results = <<>>

Init == TravInit /\ ExIdle /\ ConvIdle /\ DetIdle

Next ==
    \/ parse_directory
    \/ parse_directory_with_filter
    \/ Partition
    \/ LaunchChunk
    \/ \E i \in DOMAIN tasks : TaskDetect(i)
    \/ \E i \in DOMAIN tasks : TaskLock(i)
    \/ \E i \in DOMAIN tasks : TaskGetParser(i)
    \/ \E i \in DOMAIN tasks : TaskRead(i)
    \/ \E i \in DOMAIN tasks : TaskParse(i)
    \/ JoinChunk
    \/ Aggregate
    \/ SecondCall

Spec == Init /\ [][Next]_vars

\* the steps of a call in flight: the body of parse_files_parallel and the
\* futures join_all polls
Running ==
    \/ Partition
    \/ LaunchChunk
    \/ \E i \in DOMAIN tasks : TaskDetect(i)
    \/ \E i \in DOMAIN tasks : TaskLock(i)
    \/ \E i \in DOMAIN tasks : TaskGetParser(i)
    \/ \E i \in DOMAIN tasks : TaskRead(i)
    \/ \E i \in DOMAIN tasks : TaskParse(i)
    \/ JoinChunk
    \/ Aggregate

\* whether a step of Running can be taken: the body of parse_files_parallel
\* is not at an await, or join_all holds a future that is not waiting for the
\* pool mutex, or a future the mutex can be given to, or only finished ones
CanRun ==
    \/ pc \in {"parse_files_parallel", "chunks"}
    \/ /\ pc = "join_all"
       /\ \/ \A i \in DOMAIN tasks : tasks[i].pc = "done"
          \/ \E i \in DOMAIN tasks :
                tasks[i].pc \in {"start", "get_parser", "read", "parse"}
          \/ \E i \in DOMAIN tasks : tasks[i].pc = "lock" /\ lock = 0

\* one poll of the call's future by the executor: every step of Running is
\* one, and one is possible exactly when a step of Running is
Poll == CanRun /\ Polled

\* the executor keeps polling the call's future while one of its steps can
\* be taken: block_on / .await on parse_directory runs it to completion, the
\* tokio mutex wakes a waiting future when the guard is dropped
Fairness == WF_polls(Poll)

\* one parse_directory call
NextFair ==
    \/ parse_directory
    \/ Running

\* one parse_directory call under fair scheduling
SpecFair == Init /\ [][NextFair]_vars /\ Fairness

InitExtract == ExInit /\ TravIdle /\ ConvIdle /\ DetIdle

SpecExtract == InitExtract /\ [][ExNext]_vars

(***************************************************************************)
(* SpecCollect: the enumeration of the candidates.  A directory is drawn   *)
(* from entries that meet or miss each condition of collect_files, the     *)
(* ParseOptions from every combination of the enumeration fields, and the  *)
(* entry points are called up to the return of collect_files.              *)
(***************************************************************************)
Entry(path, depth, is_dir, size) ==
    [err |-> FALSE, path |-> path, depth |-> depth, is_dir |-> is_dir,
     size |-> size, readable |-> TRUE, content |-> PlainContent,
     parse_ok |-> TRUE, tree |-> EmptyTree("module")]

PolicyCatalogue ==
    << Entry(<<"r", "/", "a", ".", "p", "y">>, 1, FALSE, Some(10)),
       \* a hidden file
       Entry(<<"r", "/", ".", "h", ".", "p", "y">>, 1, FALSE, Some(10)),
       \* a file in a directory an ignore pattern names
       Entry(<<"r", "/", "b", "u", "i", "l", "d", "/", "g", ".", "p", "y">>, 2,
             FALSE, Some(10)),
       \* a file in a hidden directory
       Entry(<<"r", "/", ".", "v", "/", "x", ".", "p", "y">>, 2, FALSE, Some(10)),
       \* a file with no known extension
       Entry(<<"r", "/", "d", ".", "x", "y", "z">>, 1, FALSE, Some(10)),
       \* files of a little more than one and of two megabytes
       Entry(<<"r", "/", "c", ".", "R", "S">>, 1, FALSE, Some(BytesPerMb + 20)),
       Entry(<<"r", "/", "l", ".", "p", "y">>, 1, FALSE, Some(2 * BytesPerMb)),
       \* a directory named like a source file
       Entry(<<"r", "/", "s", ".", "p", "y">>, 1, TRUE, Some(10)),
       \* a file whose metadata cannot be read
       Entry(<<"r", "/", "m", ".", "p", "y">>, 1, FALSE, None) >>

PolicyOptionsSet ==
    { [max_concurrent_files |-> 1,
       include_hidden_files |-> hidden,
       max_file_size_mb |-> cap,
       recursive |-> recursive,
       ignore_patterns |-> patterns,
       language_detection |-> "ByExtension",
       include_syntax_tree |-> FALSE,
       enable_caching |-> TRUE,
       thread_pool_size |-> None] :
      hidden \in BOOLEAN, cap \in {0, 1}, recursive \in BOOLEAN,
      patterns \in {<<>>, << <<"b", "u", "i", "l", "d">> >>} }

InitCollect ==
    /\ pc = "call"
    /\ root_exists = TRUE
    /\ fs \in SubLists(PolicyCatalogue, MaxEntries)
    /\ ts_named = TRUE
    /\ api = "none"
    /\ options \in PolicyOptionsSet
    /\ file_filter = None
    /\ files_to_parse = <<>>
    /\ chunk_size = 0
    /\ chunk_start = 1
    /\ tasks = <<>>
    /\ lock = 0
    /\ parsers = <<>>
    /\ parsed_files = <<>>
    /\ error_files = <<>>
    /\ ret = None
    /\ completed = <<>>
    /\ prev = None
    /\ polls = 0
    /\ ExIdle
    /\ ConvIdle
    /\ DetIdle

\* the entry points up to the return of collect_files /
\* collect_files_with_filter
CollectNext ==
    \/ parse_directory
    \/ parse_directory_with_filter

SpecCollect == InitCollect /\ [][CollectNext]_vars

(***************************************************************************)
(* search.rs: search_by_query                                              *)
(* A tree-sitter query pattern "(kind) @c" is [kind, closed]: the node     *)
(* kind it captures and whether its parentheses are balanced.  Query::new  *)
(* rejects an unbalanced pattern and a kind that is no node kind of the    *)
(* grammar.                                                                *)
(***************************************************************************)
\* nodes of a tree a query is run on, the root included
MaxQueryNodes == 3

TreesUpTo(lang, max_nodes) ==
    UNION { { t \in { [par |-> p,
                       lab |-> [i \in 1..n |->
                                  IF i = 1 THEN RootLabel(lang) ELSE l[i - 1]]] :
                      p \in ParentArrays(n), l \in [1..(n - 1) -> NodeLabels] } :
              \A m \in 2..n : t.lab[t.par[m]].kind \notin LeafOnlyKinds } :
            n \in 1..max_nodes }

\* the node kinds the drawn trees are made of
NodeKinds ==
    {l.kind : l \in NodeLabels} \cup {RootLabel(lang).kind : lang \in ExLanguages}

QueryPatterns ==
    { [kind |-> "function_definition", closed |-> TRUE],
      [kind |-> "class_definition", closed |-> TRUE],
      [kind |-> "function_definition", closed |-> FALSE],
      [kind |-> "no_such_node", closed |-> TRUE] }

\* Query::new(&ts_language, tree_sitter_query): Ok(query) is Some, Err is None
QueryNew(ts_language, tree_sitter_query) ==
    IF tree_sitter_query.closed /\ tree_sitter_query.kind \in NodeKinds
    THEN Some(tree_sitter_query) ELSE None

\* the first direct child whose kind is "identifier" or "name"
extract_node_name(t, node) ==
    LET leaves == t.lab[node].leaves
        hits == {i \in DOMAIN leaves :
                    leaves[i].kind = "identifier" \/ leaves[i].kind = "name"}
    IN IF hits = {} THEN None
       ELSE Some(leaves[CHOOSE i \in hits : \A j \in hits : i <= j].text)

create_code_construct_from_node(t, node) ==
    [node_type  |-> t.lab[node].kind,
     name       |-> extract_node_name(t, node),
     start_byte |-> node,
     parent     |-> None,
     children   |-> <<>>]

\* cursor.matches(&query, tree.root_node(), ..): one construct per captured
\* node, in document order
QueryMatches(t, query) ==
    LET captured == SortAscending({n \in DOMAIN t.par : t.lab[n].kind = query.kind})
    IN [k \in DOMAIN captured |-> create_code_construct_from_node(t, captured[k])]

NoSyntaxTree == [kind |-> "Parse", message |-> "No syntax tree available"]

\* a variant that compiles the pattern before it looks for the syntax tree
search_by_query_compiling_first(pf, tree_sitter_query) ==
    LET ts_language == get_tree_sitter_language(pf.language)
    IN IF ~ts_language.ok THEN Err(ts_language.v)
       ELSE IF QueryNew(ts_language.v, tree_sitter_query) = None
       THEN Err([kind |-> "InvalidQuery"])
       ELSE IF pf.syntax_tree = None THEN Err(NoSyntaxTree)
       ELSE IF ~EntryAt(pf.file_path).readable THEN Err([kind |-> "Io"])
       ELSE Ok(QueryMatches(Unwrap(pf.syntax_tree),
                            Unwrap(QueryNew(ts_language.v, tree_sitter_query))))

search_by_query(pf, tree_sitter_query) ==
    LET ts_language == get_tree_sitter_language(pf.language)
    IN IF pf.syntax_tree = None THEN Err(NoSyntaxTree)
       ELSE IF ~ts_language.ok THEN Err(ts_language.v)
       ELSE IF QueryNew(ts_language.v, tree_sitter_query) = None
       THEN Err([kind |-> "InvalidQuery"])
       ELSE IF ~EntryAt(pf.file_path).readable THEN Err([kind |-> "Io"])
       ELSE Ok(QueryMatches(Unwrap(pf.syntax_tree),
                            Unwrap(QueryNew(ts_language.v, tree_sitter_query))))

(***************************************************************************)
(* SpecQuery: one file is parsed with or without its syntax tree retained, *)
(* the file may become unreadable afterwards, and search_by_query is run   *)
(* on the ParsedFile                                                       *)
(***************************************************************************)
QueryFilePath == <<"r", "/", "q", ".", "p", "y">>

QueryInit ==
    /\ xpc = "input"
    /\ language \in ExLanguages
    /\ tree \in TreesUpTo(language, MaxQueryNodes)
    /\ parsed_file = NoFile
    /\ search_args = NoSearch
    /\ results = <<>>
    /\ pc = "idle"
    /\ root_exists = TRUE
    /\ fs = <<File(QueryFilePath, 1, 10, TRUE, PlainContent, TRUE, tree)>>
    /\ ts_named = TRUE
    /\ api = "none"
    /\ options = CHOOSE o \in OptionsSet : TRUE
    /\ file_filter = None
    /\ files_to_parse = <<>>
    /\ chunk_size = 0
    /\ chunk_start = 1
    /\ tasks = <<>>
    /\ lock = 0
    /\ parsers = <<>>
    /\ parsed_files = <<>>
    /\ error_files = <<>>
    /\ ret = None
    /\ completed = <<>>
    /\ prev = None
    /\ polls = 0
    /\ conv = NoConversion
    /\ det = NoDetection

queryVarsUnchanged ==
    UNCHANGED <<language, tree, results, pc, root_exists, ts_named, api,
                options, file_filter, files_to_parse, chunk_size, chunk_start,
                tasks, lock, parsers, parsed_files, error_files, conv, det,
                completed, prev, polls>>

\* parse_file on the file, with options.include_syntax_tree either way
ParseForQuery ==
    /\ xpc = "input"
    /\ \E include_syntax_tree \in BOOLEAN :
          parsed_file' = parse_file([language |-> Some(language)], QueryFilePath,
                                    language, include_syntax_tree).v
    /\ xpc' = "extracted"
    /\ UNCHANGED <<fs, search_args, ret>>
    /\ queryVarsUnchanged

\* between the parse and the query the file is removed or loses its read
\* permission
FileBecomesUnreadable ==
    /\ xpc = "extracted"
    /\ fs[1].readable
    /\ fs' = [fs EXCEPT ![1].readable = FALSE]
    /\ UNCHANGED <<xpc, parsed_file, search_args, ret>>
    /\ queryVarsUnchanged

SearchByQuery ==
    /\ xpc = "extracted"
    /\ \E q \in QueryPatterns :
          /\ search_args' = [op |-> "query", node_types |-> <<>>,
                             name_pattern |-> None, query |-> q]
          /\ ret' = Some(search_by_query(parsed_file, q))
    /\ xpc' = "searched"
    /\ UNCHANGED <<fs, parsed_file>>
    /\ queryVarsUnchanged

QueryNext ==
    \/ ParseForQuery
    \/ FileBecomesUnreadable
    \/ SearchByQuery

SpecQuery == QueryInit /\ [][QueryNext]_vars

(***************************************************************************)
(* utils.rs: conversions between language tags and strings.  A Language    *)
(* tag is the name of its enum variant; a string is its character          *)
(* sequence.                                                               *)
(***************************************************************************)
\* a variant that matches the string as given, without lowering its case
language_from_string_case_sensitive(lang_str) ==
    IF lang_str = <<"p", "y", "t", "h", "o", "n">> THEN Some("Python")
    ELSE IF lang_str = <<"r", "u", "s", "t">> THEN Some("Rust")
    ELSE None

language_from_string(lang_str) ==
    LET s == ToLowercase(lang_str)
    IN CASE s \in {<<"p", "y", "t", "h", "o", "n">>, <<"p", "y">>} -> Some("Python")
         [] s \in {<<"r", "u", "s", "t">>, <<"r", "s">>} -> Some("Rust")
         [] s \in {<<"j", "a", "v", "a", "s", "c", "r", "i", "p", "t">>, <<"j", "s">>} -> Some("JavaScript")
         [] s \in {<<"t", "y", "p", "e", "s", "c", "r", "i", "p", "t">>, <<"t", "s">>} -> Some("TypeScript")
         [] s \in {<<"j", "a", "v", "a">>} -> Some("Java")
         [] s \in {<<"c">>} -> Some("C")
         [] s \in {<<"c", "p", "p">>, <<"c", "+", "+">>, <<"c", "x", "x">>} -> Some("Cpp")
         [] s \in {<<"g", "o">>, <<"g", "o", "l", "a", "n", "g">>} -> Some("Go")
         [] s \in {<<"c", "s", "h", "a", "r", "p">>, <<"c", "#">>, <<"c", "s">>} -> Some("CSharp")
         [] s \in {<<"p", "h", "p">>} -> Some("Php")
         [] s \in {<<"r", "u", "b", "y">>, <<"r", "b">>} -> Some("Ruby")
         [] s \in {<<"s", "w", "i", "f", "t">>} -> Some("Swift")
         [] s \in {<<"k", "o", "t", "l", "i", "n">>, <<"k", "t">>} -> Some("Kotlin")
         [] s \in {<<"s", "c", "a", "l", "a">>} -> Some("Scala")
         [] s \in {<<"h", "a", "s", "k", "e", "l", "l">>, <<"h", "s">>} -> Some("Haskell")
         [] s \in {<<"l", "u", "a">>} -> Some("Lua")
         [] s \in {<<"p", "e", "r", "l">>, <<"p", "l">>} -> Some("Perl")
         [] s \in {<<"r">>} -> Some("R")
         [] s \in {<<"b", "a", "s", "h">>, <<"s", "h">>} -> Some("Bash")
         [] s \in {<<"p", "o", "w", "e", "r", "s", "h", "e", "l", "l">>, <<"p", "s", "1">>} -> Some("PowerShell")
         [] s \in {<<"h", "t", "m", "l">>} -> Some("Html")
         [] s \in {<<"c", "s", "s">>} -> Some("Css")
         [] s \in {<<"s", "q", "l">>} -> Some("Sql")
         [] s \in {<<"j", "s", "o", "n">>} -> Some("Json")
         [] s \in {<<"y", "a", "m", "l">>, <<"y", "m", "l">>} -> Some("Yaml")
         [] s \in {<<"t", "o", "m", "l">>} -> Some("Toml")
         [] s \in {<<"x", "m", "l">>} -> Some("Xml")
         [] OTHER -> None

language_to_string(lang) ==
    CASE lang = "Python" -> <<"P", "y", "t", "h", "o", "n">>
      [] lang = "Rust" -> <<"R", "u", "s", "t">>
      [] lang = "JavaScript" -> <<"J", "a", "v", "a", "S", "c", "r", "i", "p", "t">>
      [] lang = "TypeScript" -> <<"T", "y", "p", "e", "S", "c", "r", "i", "p", "t">>
      [] lang = "Java" -> <<"J", "a", "v", "a">>
      [] lang = "C" -> <<"C">>
      [] lang = "Cpp" -> <<"C", "+", "+">>
      [] lang = "Go" -> <<"G", "o">>
      [] lang = "CSharp" -> <<"C", "#">>
      [] lang = "Php" -> <<"P", "H", "P">>
      [] lang = "Ruby" -> <<"R", "u", "b", "y">>
      [] lang = "Swift" -> <<"S", "w", "i", "f", "t">>
      [] lang = "Kotlin" -> <<"K", "o", "t", "l", "i", "n">>
      [] lang = "Scala" -> <<"S", "c", "a", "l", "a">>
      [] lang = "Haskell" -> <<"H", "a", "s", "k", "e", "l", "l">>
      [] lang = "Lua" -> <<"L", "u", "a">>
      [] lang = "Perl" -> <<"P", "e", "r", "l">>
      [] lang = "R" -> <<"R">>
      [] lang = "Bash" -> <<"B", "a", "s", "h">>
      [] lang = "PowerShell" -> <<"P", "o", "w", "e", "r", "S", "h", "e", "l", "l">>
      [] lang = "Html" -> <<"H", "T", "M", "L">>
      [] lang = "Css" -> <<"C", "S", "S">>
      [] lang = "Sql" -> <<"S", "Q", "L">>
      [] lang = "Json" -> <<"J", "S", "O", "N">>
      [] lang = "Yaml" -> <<"Y", "A", "M", "L">>
      [] lang = "Toml" -> <<"T", "O", "M", "L">>
      [] lang = "Xml" -> <<"X", "M", "L">>

(***************************************************************************)
(* SpecLang: a string is converted to a tag, the tag to its string, and    *)
(* that string to a tag again                                              *)
(***************************************************************************)
\* the strings language_from_string knows, each with its canonical form (the
\* full lowercase name): <<canonical, alias>>
Aliases ==
    { <<<<"p", "y", "t", "h", "o", "n">>, <<"p", "y", "t", "h", "o", "n">>>>,
      <<<<"p", "y", "t", "h", "o", "n">>, <<"p", "y">>>>,
      <<<<"r", "u", "s", "t">>, <<"r", "u", "s", "t">>>>,
      <<<<"r", "u", "s", "t">>, <<"r", "s">>>>,
      <<<<"j", "a", "v", "a", "s", "c", "r", "i", "p", "t">>, <<"j", "a", "v", "a", "s", "c", "r", "i", "p", "t">>>>,
      <<<<"j", "a", "v", "a", "s", "c", "r", "i", "p", "t">>, <<"j", "s">>>>,
      <<<<"t", "y", "p", "e", "s", "c", "r", "i", "p", "t">>, <<"t", "y", "p", "e", "s", "c", "r", "i", "p", "t">>>>,
      <<<<"t", "y", "p", "e", "s", "c", "r", "i", "p", "t">>, <<"t", "s">>>>,
      <<<<"j", "a", "v", "a">>, <<"j", "a", "v", "a">>>>,
      <<<<"c">>, <<"c">>>>,
      <<<<"c", "p", "p">>, <<"c", "p", "p">>>>,
      <<<<"c", "p", "p">>, <<"c", "+", "+">>>>,
      <<<<"c", "p", "p">>, <<"c", "x", "x">>>>,
      <<<<"g", "o">>, <<"g", "o">>>>,
      <<<<"g", "o">>, <<"g", "o", "l", "a", "n", "g">>>>,
      <<<<"c", "s", "h", "a", "r", "p">>, <<"c", "s", "h", "a", "r", "p">>>>,
      <<<<"c", "s", "h", "a", "r", "p">>, <<"c", "#">>>>,
      <<<<"c", "s", "h", "a", "r", "p">>, <<"c", "s">>>>,
      <<<<"p", "h", "p">>, <<"p", "h", "p">>>>,
      <<<<"r", "u", "b", "y">>, <<"r", "u", "b", "y">>>>,
      <<<<"r", "u", "b", "y">>, <<"r", "b">>>>,
      <<<<"s", "w", "i", "f", "t">>, <<"s", "w", "i", "f", "t">>>>,
      <<<<"k", "o", "t", "l", "i", "n">>, <<"k", "o", "t", "l", "i", "n">>>>,
      <<<<"k", "o", "t", "l", "i", "n">>, <<"k", "t">>>>,
      <<<<"s", "c", "a", "l", "a">>, <<"s", "c", "a", "l", "a">>>>,
      <<<<"h", "a", "s", "k", "e", "l", "l">>, <<"h", "a", "s", "k", "e", "l", "l">>>>,
      <<<<"h", "a", "s", "k", "e", "l", "l">>, <<"h", "s">>>>,
      <<<<"l", "u", "a">>, <<"l", "u", "a">>>>,
      <<<<"p", "e", "r", "l">>, <<"p", "e", "r", "l">>>>,
      <<<<"p", "e", "r", "l">>, <<"p", "l">>>>,
      <<<<"r">>, <<"r">>>>,
      <<<<"b", "a", "s", "h">>, <<"b", "a", "s", "h">>>>,
      <<<<"b", "a", "s", "h">>, <<"s", "h">>>>,
      <<<<"p", "o", "w", "e", "r", "s", "h", "e", "l", "l">>, <<"p", "o", "w", "e", "r", "s", "h", "e", "l", "l">>>>,
      <<<<"p", "o", "w", "e", "r", "s", "h", "e", "l", "l">>, <<"p", "s", "1">>>>,
      <<<<"h", "t", "m", "l">>, <<"h", "t", "m", "l">>>>,
      <<<<"c", "s", "s">>, <<"c", "s", "s">>>>,
      <<<<"s", "q", "l">>, <<"s", "q", "l">>>>,
      <<<<"j", "s", "o", "n">>, <<"j", "s", "o", "n">>>>,
      <<<<"y", "a", "m", "l">>, <<"y", "a", "m", "l">>>>,
      <<<<"y", "a", "m", "l">>, <<"y", "m", "l">>>>,
      <<<<"t", "o", "m", "l">>, <<"t", "o", "m", "l">>>>,
      <<<<"x", "m", "l">>, <<"x", "m", "l">>>> }

UpperChar(ch) ==
    IF \E i \in DOMAIN LowerLetters : LowerLetters[i] = ch
    THEN UpperLetters[CHOOSE i \in DOMAIN LowerLetters : LowerLetters[i] = ch]
    ELSE ch

ToUppercase(s) == [i \in DOMAIN s |-> UpperChar(s[i])]

Capitalized(s) == [i \in DOMAIN s |-> IF i = 1 THEN UpperChar(s[i]) ELSE s[i]]

\* the arguments of language_from_string: every known string in lower case,
\* in upper case and capitalized, and strings it does not know
LanguageStrings ==
    UNION { {p[2], ToUppercase(p[2]), Capitalized(p[2])} : p \in Aliases }
        \cup {<<"u", "n", "k", "n", "o", "w", "n">>, <<"p", "y", "t", "h">>, <<>>}

ConvInit ==
    conv \in { [pc |-> "input", lang_str |-> s, tag |-> None, display |-> <<>>,
                again |-> None] : s \in LanguageStrings }

LanguageFromString ==
    /\ conv.pc = "input"
    /\ conv' = [conv EXCEPT !.tag = language_from_string(conv.lang_str),
                            !.pc = "tagged"]
    /\ UNCHANGED <<exVars, travVars, det>>

LanguageToString ==
    /\ conv.pc = "tagged"
    /\ IsSome(conv.tag)
    /\ conv' = [conv EXCEPT !.display = language_to_string(Unwrap(conv.tag)),
                            !.pc = "displayed"]
    /\ UNCHANGED <<exVars, travVars, det>>

LanguageFromStringAgain ==
    /\ conv.pc = "displayed"
    /\ conv' = [conv EXCEPT !.again = language_from_string(conv.display),
                            !.pc = "done"]
    /\ UNCHANGED <<exVars, travVars, det>>

LangNext ==
    \/ LanguageFromString
    \/ LanguageToString
    \/ LanguageFromStringAgain

InitLang == ConvInit /\ ExIdle /\ TravIdle /\ DetIdle

SpecLang == InitLang /\ [][LangNext]_vars

(***************************************************************************)
(* SpecDetect: detect_language is called on a drawn path and content       *)
(***************************************************************************)
\* paths with a known extension (in either case), an unknown one and none
DetectPaths ==
    { <<"a", ".", "p", "y">>, <<"b", ".", "R", "S">>, <<"e", ".", "s", "h">>,
      <<"c", ".", "x", "y", "z">>, <<"d">> }

\* contents: none given, or a first line (no shebang, or a shebang with the
\* interpreter words it contains) and the markers the content contains
DetectContents ==
    {None} \cup
    { Some([shebang |-> sb, has |-> markers]) :
        sb \in {None, Some({}), Some({"python"}), Some({"node"}),
                Some({"ruby", "perl"})},
        markers \in SUBSET {"def ", "import ", "fn ", "use "} }

DetectInit ==
    det \in { [pc |-> "input", file_path |-> p, content |-> c, result |-> None] :
                p \in DetectPaths, c \in DetectContents }

DetectLanguage ==
    /\ det.pc = "input"
    /\ det' = [det EXCEPT !.result = detect_language(det.file_path, det.content),
                          !.pc = "done"]
    /\ UNCHANGED <<exVars, travVars, conv>>

DetectNext == DetectLanguage

InitDetect == DetectInit /\ ExIdle /\ TravIdle /\ ConvIdle

SpecDetect == InitDetect /\ [][DetectNext]_vars

(***************************************************************************)
(* search.rs: the convenience searches, each with its per-language table   *)
(* of node kinds                                                           *)
(***************************************************************************)
function_types(lang) ==
    CASE lang = "Python" -> <<"function_definition">>
      [] lang = "Rust" -> <<"function_item">>
      [] lang = "JavaScript" ->
            <<"function_declaration", "function_expression", "arrow_function">>
      [] lang = "TypeScript" ->
            <<"function_declaration", "function_expression", "arrow_function">>
      [] lang = "Java" -> <<"method_declaration", "constructor_declaration">>
      [] lang = "C" -> <<"function_definition">>
      [] lang = "Cpp" -> <<"function_definition">>
      [] lang = "Go" -> <<"function_declaration", "method_declaration">>
      [] OTHER -> <<>>

class_types(lang) ==
    CASE lang = "Python" -> <<"class_definition">>
      [] lang = "Rust" -> <<"struct_item", "enum_item">>
      [] lang = "JavaScript" -> <<"class_declaration">>
      [] lang = "TypeScript" -> <<"class_declaration", "interface_declaration">>
      [] lang = "Java" -> <<"class_declaration", "interface_declaration">>
      [] lang = "C" ->
            <<"struct_specifier", "union_specifier", "enum_specifier">>
      [] lang = "Cpp" ->
            <<"class_specifier", "struct_specifier", "union_specifier",
              "enum_specifier">>
      [] lang = "Go" -> <<"type_declaration">>
      [] OTHER -> <<>>

import_types(lang) ==
    CASE lang = "Python" -> <<"import_statement", "import_from_statement">>
      [] lang = "Rust" -> <<"use_declaration">>
      [] lang = "JavaScript" -> <<"import_statement">>
      [] lang = "TypeScript" -> <<"import_statement">>
      [] lang = "Java" -> <<"import_declaration">>
      [] lang = "C" -> <<"preproc_include">>
      [] lang = "Cpp" -> <<"preproc_include">>
      [] lang = "Go" -> <<"import_declaration">>
      [] OTHER -> <<>>

variable_types(lang) ==
    CASE lang = "Python" -> <<"assignment">>
      [] lang = "Rust" -> <<"const_item", "static_item">>
      [] lang = "JavaScript" -> <<"variable_declaration">>
      [] lang = "TypeScript" -> <<"variable_declaration">>
      [] lang = "Java" -> <<"field_declaration">>
      [] lang = "C" -> <<"declaration">>
      [] lang = "Cpp" -> <<"declaration">>
      [] lang = "Go" -> <<"var_declaration", "const_declaration">>
      [] OTHER -> <<>>

\* a variant that drops the caller's name pattern
search_functions_unfiltered(pf, name_pattern) ==
    search_by_multiple_node_types(pf, function_types(pf.language), None)

search_functions(pf, name_pattern) ==
    search_by_multiple_node_types(pf, function_types(pf.language), name_pattern)

search_classes(pf, name_pattern) ==
    search_by_multiple_node_types(pf, class_types(pf.language), name_pattern)

search_imports(pf) ==
    search_by_multiple_node_types(pf, import_types(pf.language), None)

search_variables(pf, name_pattern) ==
    search_by_multiple_node_types(pf, variable_types(pf.language), name_pattern)

(***************************************************************************)
(* SpecCategory: extraction of one drawn tree, then the convenience        *)
(* searches on its result                                                  *)
(***************************************************************************)
\* Python and C have tables; Ruby has none (and no allow-list)
CategoryLanguages == {"Python", "C", "Ruby"}

\* a file that holds one variable: `a = ..` / `int a;`
VariableTree(lang) ==
    [par |-> <<0, 1>>,
     lab |-> << RootLabel(lang),
                [kind |-> IF lang = "C" THEN "declaration" ELSE "assignment",
                 leaves |-> <<Leaf("identifier", <<"a">>)>>] >>]

CategoryInit ==
    /\ xpc = "input"
    /\ language \in CategoryLanguages
    /\ tree \in TreesUpTo(language, MaxQueryNodes) \cup {VariableTree(language)}
    /\ parsed_file = NoFile
    /\ search_args = NoSearch
    /\ results = <<>>

SearchFunctions ==
    /\ xpc = "extracted"
    /\ \E p \in SearchPatterns :
          /\ search_args' = [op |-> "functions", node_types |-> <<>>,
                             name_pattern |-> p]
          /\ results' = search_functions(parsed_file, p)
    /\ xpc' = "searched"
    /\ UNCHANGED <<language, tree, parsed_file>>
    /\ UNCHANGED <<travVars, conv, det>>

SearchClasses ==
    /\ xpc = "extracted"
    /\ \E p \in SearchPatterns :
          /\ search_args' = [op |-> "classes", node_types |-> <<>>,
                             name_pattern |-> p]
          /\ results' = search_classes(parsed_file, p)
    /\ xpc' = "searched"
    /\ UNCHANGED <<language, tree, parsed_file>>
    /\ UNCHANGED <<travVars, conv, det>>

SearchImports ==
    /\ xpc = "extracted"
    /\ search_args' = [op |-> "imports", node_types |-> <<>>,
                       name_pattern |-> None]
    /\ results' = search_imports(parsed_file)
    /\ xpc' = "searched"
    /\ UNCHANGED <<language, tree, parsed_file>>
    /\ UNCHANGED <<travVars, conv, det>>

SearchVariables ==
    /\ xpc = "extracted"
    /\ \E p \in SearchPatterns :
          /\ search_args' = [op |-> "variables", node_types |-> <<>>,
                             name_pattern |-> p]
          /\ results' = search_variables(parsed_file, p)
    /\ xpc' = "searched"
    /\ UNCHANGED <<language, tree, parsed_file>>
    /\ UNCHANGED <<travVars, conv, det>>

CategoryNext ==
    \/ Extract
    \/ SearchFunctions
    \/ SearchClasses
    \/ SearchImports
    \/ SearchVariables

InitCategory == CategoryInit /\ TravIdle /\ ConvIdle /\ DetIdle

SpecCategory == InitCategory /\ [][CategoryNext]_vars

(***************************************************************************)
(* Claims about extraction and search (checked under SpecExtract)          *)
(***************************************************************************)
\* parse_file has returned; the searches that follow leave parsed_file and
\* tree as they are, so the extraction is judged where it is produced
Extracted == xpc = "extracted"

IsAllowListed(n) ==
    Contains(get_supported_node_types(language), tree.lab[n].kind)

AllowListedNodes == {n \in DOMAIN tree.par : IsAllowListed(n)}

RECURSIVE NearestAllowListed(_)
\* n itself when allow-listed, else its nearest allow-listed ancestor, else 0
NearestAllowListed(n) ==
    IF n = 0 THEN 0
    ELSE IF IsAllowListed(n) THEN n
    ELSE NearestAllowListed(tree.par[n])

\* the nearest allow-listed proper ancestor of node n (0 when there is none)
EnclosingConstructNode(n) == NearestAllowListed(tree.par[n])

StartBytes(cs) == [k \in DOMAIN cs |-> cs[k].start_byte]

\* C1: the flattened list of extract_constructs holds exactly one entry per
\* tree node whose kind is on the language's allow-list: every entry is an
\* allow-listed node of the tree, every allow-listed node has an entry, and
\* no node has two entries.
C1_OneEntryPerAllowListedNode ==
    Extracted =>
        LET cs == parsed_file.constructs
        IN /\ \A i \in DOMAIN cs :
                 /\ Contains(get_supported_node_types(language), cs[i].node_type)
                 /\ cs[i].start_byte \in DOMAIN tree.par
                 /\ cs[i].node_type = tree.lab[cs[i].start_byte].kind
           /\ {cs[i].start_byte : i \in DOMAIN cs} = AllowListedNodes
           /\ \A i, j \in DOMAIN cs :
                 i # j => cs[i].start_byte # cs[j].start_byte

\* two sibling subtrees each hold a nested construct of the same kind and name
C1_Witness ==
    /\ xpc = "extracted"
    /\ \E i, j \in DOMAIN parsed_file.constructs :
          LET a == parsed_file.constructs[i]
              b == parsed_file.constructs[j]
          IN /\ i # j
             /\ a.node_type = b.node_type
             /\ IsSome(a.name) /\ a.name = b.name
             /\ IsSome(a.parent) /\ IsSome(b.parent)
             /\ Unwrap(a.parent).start_byte # Unwrap(b.parent).start_byte
             /\ tree.par[Unwrap(a.parent).start_byte]
                   = tree.par[Unwrap(b.parent).start_byte]

\* C2: in the flattened list a construct has no parent iff its node has no
\* allow-listed ancestor; otherwise its parent is the nearest allow-listed
\* ancestor; its children are exactly the constructs whose nearest
\* allow-listed ancestor it is, in document order.
C2_ParentIsNearestAllowListedAncestor ==
    Extracted =>
        \A i \in DOMAIN parsed_file.constructs :
            LET c == parsed_file.constructs[i]
                a == EnclosingConstructNode(c.start_byte)
            IN /\ (c.parent = None) <=> (a = 0)
               /\ a # 0 =>
                     /\ Unwrap(c.parent).start_byte = a
                     /\ Unwrap(c.parent).node_type = tree.lab[a].kind
               /\ StartBytes(c.children) =
                     SortAscending({m \in AllowListedNodes :
                                       EnclosingConstructNode(m) = c.start_byte})

\* one construct nested in another below a node that is not allow-listed:
\* two flattened constructs, the inner one's parent is the outer one and the
\* outer one's children are exactly the inner one
C2_Witness ==
    /\ xpc = "extracted"
    /\ Len(parsed_file.constructs) = 2
    /\ LET outer == parsed_file.constructs[1]
           inner == parsed_file.constructs[2]
       IN /\ outer.parent = None
          /\ IsSome(inner.parent)
          /\ Unwrap(inner.parent).start_byte = outer.start_byte
          /\ StartBytes(outer.children) = <<inner.start_byte>>
          /\ tree.par[inner.start_byte] # outer.start_byte

\* whether a construct passes the kind set and the optional name pattern
Qualifies(c, node_types, name_pattern) ==
    /\ Contains(node_types, c.node_type)
    /\ IsSome(name_pattern) =>
          /\ RegexNew(Unwrap(name_pattern)) # None
          /\ IsSome(c.name)
          /\ is_match(Unwrap(name_pattern), Unwrap(c.name))

\* C3: search_by_multiple_node_types returns the union of the matches over
\* the requested kinds, each matching construct (source location) at most
\* once, also when matching constructs are nested in other constructs.
C3_MultiSearchEachMatchOnce ==
    (xpc = "searched" /\ search_args.op = "multiple") =>
        /\ {results[k].start_byte : k \in DOMAIN results} =
              {parsed_file.constructs[i].start_byte :
                  i \in {j \in DOMAIN parsed_file.constructs :
                            Qualifies(parsed_file.constructs[j],
                                      search_args.node_types,
                                      search_args.name_pattern)}}
        /\ \A k, l \in DOMAIN results :
              k # l => results[k].start_byte # results[l].start_byte

(***************************************************************************)
(* Claims about a traversal (checked under Spec)                           *)
(***************************************************************************)
Returned == pc = "returned"
ReturnedOk == pc = "returned" /\ Unwrap(ret).ok
ReturnedErr == pc = "returned" /\ ~Unwrap(ret).ok
Project == Unwrap(ret).v

\* how many members of sequence s satisfy Test
Count(s, Test(_)) == Cardinality({i \in DOMAIN s : Test(s[i])})

\* a regular file of the directory that the walk visits and that the hidden,
\* ignore and size policies of the options let through
PassesPolicies(e) ==
    /\ ~e.err /\ ~e.is_dir
    /\ options.recursive \/ e.depth <= 1
    /\ options.include_hidden_files \/ ~is_hidden_file(e.path)
    /\ ~should_ignore_file(e.path, options.ignore_patterns)
    /\ IsSome(e.size) =>
          (Unwrap(e.size) \div BytesPerMb) <= options.max_file_size_mb

\* no language can be determined for the file from its extension
Undetectable(e) == detect_language_by_extension(e.path) = None

FilterLetsThrough(e) ==
    file_filter = None \/ FilterKeeps(e.path, Unwrap(file_filter))

\* C4: a file under the root for which no language can be determined is not
\* counted as processed and produces exactly one FileError of kind
\* UnsupportedLanguage in error_files.
C4_UndetectableFileReportedOnce ==
    ReturnedOk =>
        \A k \in DOMAIN fs :
            (PassesPolicies(fs[k]) /\ Undetectable(fs[k])
                /\ FilterLetsThrough(fs[k])) =>
                /\ Count(Project.files,
                         LAMBDA f : f.file_path = fs[k].path) = 0
                /\ Count(Project.error_files,
                         LAMBDA f : /\ f.file_path = fs[k].path
                                    /\ f.error_type = "UnsupportedLanguage") = 1

\* C5: the tasks launched together in one batch never exceed
\* options.max_concurrent_files, for max_concurrent_files >= 1.
C5_BatchWithinConcurrencyBound ==
    (pc = "join_all" /\ options.max_concurrent_files >= 1) =>
        Len(tasks) <= options.max_concurrent_files

\* an error the walker reports for an entry it visits
WalkerFails == \E i \in DOMAIN Walker(fs, options) : Walker(fs, options)[i].err

\* every candidate has a ParsedFile in `files` or a FileError in `errors`
EveryCandidateRecorded(files, errors) ==
    \A k \in DOMAIN files_to_parse :
        \/ \E i \in DOMAIN files : files[i].file_path = files_to_parse[k]
        \/ \E i \in DOMAIN errors : errors[i].file_path = files_to_parse[k]

\* C6 as stated: the call returns Err only when the root path does not
\* exist; every other failure, an error of the directory walker included,
\* leaves the call returning a ParsedProject.
C6_ErrOnlyForMissingRoot ==
    ReturnedErr => ~root_exists

\* C6 as amended: the call returns Err exactly when the root path does not
\* exist or the directory walker reports an error for an entry it visits;
\* every other return is a ParsedProject in which each candidate file is
\* recorded, the failed ones in error_files.
C6_ErrIffMissingRootOrWalkerError ==
    Returned =>
        /\ ReturnedErr <=> (~root_exists \/ WalkerFails)
        /\ ReturnedErr => Unwrap(ret).v.kind = "Io"
        /\ ReturnedOk => EveryCandidateRecorded(Project.files, Project.error_files)

\* the root exists and the walk fails on an entry: the call returned Err
C6_Witness ==
    /\ ReturnedErr
    /\ root_exists
    /\ WalkerFails
    /\ \E k \in DOMAIN fs : ~fs[k].err /\ CollectKeeps(fs[k], options)

\* task i ran parse_file and its read failed
ReadFailed(i) ==
    /\ tasks[i].pc = "done"
    /\ tasks[i].parser # 0
    /\ ~EntryAt(tasks[i].path).readable

\* C7: a task whose file cannot be read inside parse_file produces a
\* FileError of the Io kind (ErrorType::IoError), not ParseError.
C7_ReadFailureIsIoError ==
    pc = "join_all" =>
        \A i \in DOMAIN tasks :
            ReadFailed(i) =>
                /\ ~Unwrap(tasks[i].result).ok
                /\ Unwrap(tasks[i].result).v.error_type = "IoError"

\* task i detected a language that has no grammar bound
NoGrammarBound(i) ==
    /\ tasks[i].pc = "done"
    /\ IsSome(tasks[i].language)
    /\ ~get_tree_sitter_language(Unwrap(tasks[i].language)).ok

\* C8: a task whose detected language has no grammar bound produces a
\* FileError of kind UnsupportedLanguage.
C8_NoGrammarIsUnsupportedLanguage ==
    pc = "join_all" =>
        \A i \in DOMAIN tasks :
            NoGrammarBound(i) =>
                /\ ~Unwrap(tasks[i].result).ok
                /\ Unwrap(tasks[i].result).v.error_type = "UnsupportedLanguage"

\* C9: in a completed traversal every candidate handed to
\* parse_files_parallel is accounted for exactly once, as one ParsedFile in
\* files or one FileError in error_files, so |files| + |error_files| is the
\* number of candidates whatever files failed.
C9_EveryCandidateOnce ==
    ReturnedOk =>
        /\ Len(Project.files) + Len(Project.error_files) = Len(files_to_parse)
        /\ \A k \in DOMAIN files_to_parse :
              Count(Project.files,
                    LAMBDA f : f.file_path = files_to_parse[k])
                + Count(Project.error_files,
                        LAMBDA f : f.file_path = files_to_parse[k]) = 1

\* a candidate that failed is followed by a candidate that succeeded
C9_Witness ==
    /\ ReturnedOk
    /\ \E j, k \in DOMAIN files_to_parse :
          /\ j < k
          /\ \E i \in DOMAIN Project.error_files :
                Project.error_files[i].file_path = files_to_parse[j]
          /\ \E i \in DOMAIN Project.files :
                Project.files[i].file_path = files_to_parse[k]

RECURSIVE SumOver(_, _)
\* the sum of f over the set S of its arguments
SumOver(f, S) ==
    IF S = {} THEN 0
    ELSE LET x == CHOOSE y \in S : TRUE
         IN f[x] + SumOver(f, S \ {x})

\* C10: in a returned ParsedProject total_files_processed is the length of
\* files, language_distribution maps each language to the number of
\* successful files of that language with no entry for a language without
\* one, and its values sum to total_files_processed; failed files count
\* nowhere.
C10_StatisticsCountSuccessesOnly ==
    ReturnedOk =>
        LET dist == Project.language_distribution
        IN /\ Project.total_files_processed = Len(Project.files)
           /\ \A i \in DOMAIN Project.error_files :
                 Count(Project.files,
                       LAMBDA f : f.file_path = Project.error_files[i].file_path) = 0
           /\ DOMAIN dist = {Project.files[i].language : i \in DOMAIN Project.files}
           /\ \A l \in DOMAIN dist :
                 /\ dist[l] = Count(Project.files, LAMBDA f : f.language = l)
                 /\ dist[l] >= 1
           /\ SumOver(dist, DOMAIN dist) = Project.total_files_processed

\* two files of two languages were parsed and a third file failed
C10_Witness ==
    /\ ReturnedOk
    /\ Cardinality(DOMAIN Project.language_distribution) = 2
    /\ Len(Project.error_files) >= 1
    /\ Project.total_files_processed = 2

\* C11: a traversal of a root path that does not exist fails at once with
\* Error::Io: the call has returned Err(Io) as its first step, no file was
\* enumerated, no task launched, no parser created, and no ParsedProject is
\* returned.
C11_MissingRootFailsAtOnce ==
    ~root_exists =>
        /\ pc \in {"call", "returned"}
        /\ files_to_parse = <<>> /\ tasks = <<>> /\ parsers = <<>>
        /\ parsed_files = <<>> /\ error_files = <<>>
        /\ pc = "returned" =>
              /\ ~Unwrap(ret).ok
              /\ Unwrap(ret).v.kind = "Io"

\* parse_directory_with_filter was called on a missing root and has returned
C11_Witness ==
    /\ ~root_exists
    /\ pc = "returned"
    /\ api = "parse_directory_with_filter"
    /\ ret = Some(Err([kind |-> "Io"]))

\* the candidate at position k has its result in parsed_files or error_files
RecordedOnce(k) ==
    Count(parsed_files, LAMBDA f : f.file_path = files_to_parse[k])
        + Count(error_files, LAMBDA f : f.file_path = files_to_parse[k]) = 1

InGetParser == {i \in DOMAIN tasks : tasks[i].pc = "get_parser"}

\* C13: under every interleaving at most one task is executing the pool's
\* lookup-or-create (get_parser), and that task holds the pool mutex.
C13_GetParserMutuallyExclusive ==
    /\ Cardinality(InGetParser) <= 1
    /\ \A i \in InGetParser : lock = i

\* one task is in get_parser while another has detected its language and
\* waits for the mutex
C13_Witness ==
    /\ pc = "join_all"
    /\ \E i, j \in DOMAIN tasks :
          /\ i # j
          /\ tasks[i].pc = "get_parser"
          /\ tasks[j].pc = "lock"

\* C14: every successful get_parser call hands out a parser bound to the
\* grammar of the requested language, and the pool holds at most one parser
\* per distinct grammar, whether or not the grammars report a name().
C14_PoolOneParserPerGrammar ==
    /\ \A i \in DOMAIN tasks :
          tasks[i].parser # 0 =>
              parsers[tasks[i].parser].language
                  = Some(get_tree_sitter_language(Unwrap(tasks[i].language)).v)
    /\ \A a, b \in DOMAIN parsers :
          a # b => parsers[a].language # parsers[b].language

\* "(": an unclosed group, which Regex::new rejects
UnclosedGroup == <<"(">>

\* C15: search_by_node_type and search_by_multiple_node_types called with a
\* name pattern that does not compile return the empty result, whatever the
\* ParsedFile holds and whatever kinds are asked for.
C15_InvalidPatternGivesEmptyResult ==
    (xpc = "searched" /\ search_args.name_pattern = Some(UnclosedGroup)) =>
        results = <<>>

\* a search by one node type with the invalid pattern on a file that holds a
\* named construct of that kind
C15_Witness ==
    /\ xpc = "searched"
    /\ search_args.op = "single"
    /\ search_args.name_pattern = Some(UnclosedGroup)
    /\ results = <<>>
    /\ \E i \in DOMAIN parsed_file.constructs :
          /\ parsed_file.constructs[i].node_type = search_args.node_types[1]
          /\ IsSome(parsed_file.constructs[i].name)

\* the flattened constructs of kind t whose name, when a pattern is given, is
\* present and matches it
FlattenedMatches(t, name_pattern) ==
    {c \in Range(parsed_file.constructs) :
        /\ c.node_type = t
        /\ IsSome(name_pattern) =>
              /\ IsSome(c.name)
              /\ is_match(Unwrap(name_pattern), Unwrap(c.name))}

\* C16: for a node type t and an optional pattern that compiles, the set of
\* constructs search_by_node_type returns is the set of flattened constructs
\* of kind t whose name (when a pattern is given) is present and matches.
C16_SingleTypeSearchIsExact ==
    (/\ xpc = "searched"
     /\ search_args.op = "single"
     /\ search_args.name_pattern # Some(UnclosedGroup)) =>
        Range(results) =
            FlattenedMatches(search_args.node_types[1], search_args.name_pattern)

\* a search with a pattern returned a construct nested in another one while
\* the file also holds a construct of another kind and one without a name
C16_Witness ==
    /\ xpc = "searched"
    /\ search_args.op = "single"
    /\ IsSome(search_args.name_pattern)
    /\ \E k \in DOMAIN results : IsSome(results[k].parent)
    /\ \E i, j \in DOMAIN parsed_file.constructs :
          /\ parsed_file.constructs[i].node_type # search_args.node_types[1]
          /\ IsSome(parsed_file.constructs[i].name)
          /\ parsed_file.constructs[j].name = None

(***************************************************************************)
(* Claims about search_by_query (checked under SpecQuery)                  *)
(***************************************************************************)
\* the pattern is well formed and names a node kind
Compiles(q) == q.closed /\ q.kind \in NodeKinds

\* C17: search_by_query on a ParsedFile without a retained syntax tree fails
\* with the Parse "no syntax tree" error for every pattern, compiling or not,
\* and whether or not the file can still be read; with a retained tree and a
\* supported language a pattern that does not compile gives
\* Error::InvalidQuery.
C17_QueryErrors ==
    (xpc = "searched" /\ search_args.op = "query") =>
        /\ parsed_file.syntax_tree = None =>
              ret = Some(Err(NoSyntaxTree))
        /\ (parsed_file.syntax_tree # None /\ ~Compiles(search_args.query)) =>
              ret = Some(Err([kind |-> "InvalidQuery"]))

\* no tree was retained, the pattern is unbalanced and the file has become
\* unreadable: the answer is the "no syntax tree" error
C17_Witness ==
    /\ xpc = "searched"
    /\ search_args.op = "query"
    /\ parsed_file.syntax_tree = None
    /\ ~search_args.query.closed
    /\ ~fs[1].readable
    /\ ret = Some(Err(NoSyntaxTree))

(***************************************************************************)
(* Claims about the language-tag conversions (checked under SpecLang)      *)
(***************************************************************************)
\* the canonical strings: the full lowercase names
CanonicalStrings == {p[1] : p \in Aliases}

\* C18 as stated: a canonical string converted to its tag and back is the
\* same canonical string, and every alias in any letter case maps to the tag
\* of its canonical form.
C18_CanonicalStringRoundTrip ==
    /\ (conv.pc \in {"displayed", "done"} /\ conv.lang_str \in CanonicalStrings) =>
          conv.display = conv.lang_str
    /\ conv.pc \in {"tagged", "displayed", "done"} =>
          \A p \in Aliases :
              ToLowercase(conv.lang_str) = p[2] =>
                  /\ IsSome(conv.tag)
                  /\ conv.tag = language_from_string(p[1])

\* C18 as amended: language_to_string gives the display name of the tag,
\* which language_from_string maps back to the same tag (tag -> string -> tag
\* is the identity) and which in lower case is one of the tag's known
\* strings; every known string in any letter case maps to the tag of its
\* canonical form, and a string that is none of them maps to no tag.
C18_TagRoundTripAndAliases ==
    /\ conv.pc = "done" => conv.again = conv.tag
    /\ conv.pc \in {"displayed", "done"} =>
          \E p \in Aliases :
              /\ p[2] = ToLowercase(conv.display)
              /\ language_from_string(p[1]) = conv.tag
    /\ conv.pc \in {"tagged", "displayed", "done"} =>
          /\ \A p \in Aliases :
                ToLowercase(conv.lang_str) = p[2] =>
                    /\ IsSome(conv.tag)
                    /\ conv.tag = language_from_string(p[1])
          /\ (\A p \in Aliases : ToLowercase(conv.lang_str) # p[2]) =>
                conv.tag = None

\* the upper-case alias "CXX" went to the tag Cpp, whose string "C++" is not
\* the canonical "cpp", and back to Cpp
C18_Witness ==
    /\ conv.pc = "done"
    /\ conv.lang_str = <<"C", "X", "X">>
    /\ conv.tag = Some("Cpp")
    /\ conv.display = <<"C", "+", "+">>
    /\ conv.again = Some("Cpp")

\* the criteria of a FileFilter as the claim lists them; an extension is
\* compared without regard to letter case, as everywhere else in the crate
ExtensionAllowed(path, extensions) ==
    /\ IsSome(Extension(path))
    /\ \E i \in DOMAIN extensions :
          ToLowercase(extensions[i]) = ToLowercase(Unwrap(Extension(path)))

MeetsEveryCriterion(path, filter) ==
    /\ IsSome(filter.extensions) =>
          ExtensionAllowed(path, Unwrap(filter.extensions))
    /\ IsSome(filter.languages) =>
          /\ IsSome(detect_language_by_extension(path))
          /\ Contains(Unwrap(filter.languages),
                      Unwrap(detect_language_by_extension(path)))
    /\ IsSome(filter.min_size_bytes) =>
          /\ IsSome(EntryAt(path).size)
          /\ Unwrap(filter.min_size_bytes) <= Unwrap(EntryAt(path).size)
    /\ IsSome(filter.max_size_bytes) =>
          /\ IsSome(EntryAt(path).size)
          /\ Unwrap(EntryAt(path).size) <= Unwrap(filter.max_size_bytes)
    /\ IsSome(filter.custom_predicate) =>
          path \in Unwrap(filter.custom_predicate)

\* the call went through the enumeration of parse_directory_with_filter
FilteredEnumerationDone ==
    /\ api = "parse_directory_with_filter"
    /\ root_exists
    /\ collect_files(fs, options).ok

\* C19: collect_files_with_filter keeps a file of the list collect_files
\* gives iff every criterion that is set holds for it (extension in the
\* extension allow-list, language in the language allow-list, size within
\* the bounds, custom predicate true): the result is that sub-list, in the
\* same order, and all of collect_files when no criterion is set.
C19_FilterKeepsExactlyTheMatches ==
    FilteredEnumerationDone =>
        /\ files_to_parse =
              SelectSeq(collect_files(fs, options).v,
                        LAMBDA path : MeetsEveryCriterion(path, Unwrap(file_filter)))
        /\ Unwrap(file_filter) = NoFilter =>
              files_to_parse = collect_files(fs, options).v

\* C20: no file whose size exceeds max_file_size_mb megabytes
\* (max_file_size_mb * 1024 * 1024 bytes) is placed in the candidate list.
C20_NoCandidateAboveSizeCap ==
    (root_exists /\ pc # "call") =>
        \A k \in DOMAIN files_to_parse :
            LET size == EntryAt(files_to_parse[k]).size
            IN IsSome(size) =>
                  Unwrap(size) <= options.max_file_size_mb * BytesPerMb

C22_EveryTaskAndCallCompletes ==
    /\ \A i \in 1..MaxEntries :
          /\ (i \in DOMAIN tasks /\ tasks[i].pc # "done")
                ~> (i \in DOMAIN tasks /\ tasks[i].pc = "done")
          /\ (lock = i) ~> (lock = 0)
    /\ (pc = "join_all") ~> (pc = "chunks")
    /\ (pc = "parse_files_parallel" /\ options.max_concurrent_files >= 1)
          ~> (pc = "returned")

\* a task waits for the pool lock another task of its chunk holds
C22_Witness ==
    /\ pc = "join_all"
    /\ options.max_concurrent_files >= 1
    /\ lock # 0
    /\ \E j \in DOMAIN tasks : j # lock /\ tasks[j].pc = "lock"
    /\ \E j \in DOMAIN tasks : tasks[j].pc = "start"

(***************************************************************************)
(* Claims about the enumeration (checked under SpecCollect)                *)
(***************************************************************************)
\* the conditions of the enumeration policy on an entry of the directory
SatisfiesPolicy(e, opts) ==
    /\ \A k \in DOMAIN opts.ignore_patterns :
          ~IsSubstring(opts.ignore_patterns[k], e.path)
    /\ ~opts.include_hidden_files => Head(FileName(e.path)) # "."
    /\ ~opts.recursive => e.depth = 1
    /\ IsSome(detect_language_by_extension(e.path))

\* the entry's size is known and at most max_file_size_mb megabytes
WithinSizeCap(e, opts) ==
    /\ IsSome(e.size)
    /\ Unwrap(e.size) <= opts.max_file_size_mb * BytesPerMb

ByExtension == detect_language_by_extension(det.file_path)
ByShebang ==
    IF IsSome(det.content) THEN detect_language_by_shebang(Unwrap(det.content))
    ELSE None
ByContent ==
    IF IsSome(det.content) THEN detect_language_by_content(Unwrap(det.content))
    ELSE None

\* C24: detect_language returns the first hit of extension, shebang, content
\* heuristics: the extension's language whenever the extension is recognised,
\* the shebang's only when the extension gives nothing, the heuristics' only
\* when both give nothing, and None only when all three give nothing
C24_FirstHitWins ==
    det.pc = "done" =>
        /\ IsSome(ByExtension) => det.result = ByExtension
        /\ (ByExtension = None /\ IsSome(ByShebang)) => det.result = ByShebang
        /\ (ByExtension = None /\ ByShebang = None) => det.result = ByContent
        /\ det.result = None <=>
              (ByExtension = None /\ ByShebang = None /\ ByContent = None)

\* a Rust file with a python shebang and Python markers is Rust
C24_Witness ==
    /\ det.pc = "done"
    /\ det.file_path = <<"b", ".", "R", "S">>
    /\ det.content = Some([shebang |-> Some({"python"}),
                           has |-> {"def ", "import "}])
    /\ det.result = Some("Rust")

(***************************************************************************)
(* Claims about the convenience searches (checked under SpecCategory)      *)
(***************************************************************************)
\* the language tags of lib.rs with a category table, and some without
TableLanguages ==
    {"Python", "Rust", "JavaScript", "TypeScript", "Java", "C", "Cpp", "Go"}
OtherLanguages == {"Ruby", "CSharp", "Php", "Bash", "Html", "Json"}

\* the kinds of a category for a language
CategoryKinds(category, lang) ==
    CASE category = "functions" -> function_types(lang)
      [] category = "classes" -> class_types(lang)
      [] category = "imports" -> import_types(lang)
      [] category = "variables" -> variable_types(lang)

Categories == {"functions", "classes", "imports", "variables"}

\* C25: a convenience search returns what search_by_multiple_node_types
\* returns for the category's kinds of the file's language and the same name
\* pattern (none for imports); every kind of a category is on the allow-list
\* of its language; without a table for the language the result is empty
C25_CategorySearchDelegates ==
    /\ (xpc = "searched" /\ search_args.op \in Categories) =>
          /\ results = search_by_multiple_node_types(parsed_file,
                          CategoryKinds(search_args.op, parsed_file.language),
                          search_args.name_pattern)
          /\ search_args.op = "imports" => search_args.name_pattern = None
          /\ parsed_file.language \notin TableLanguages => results = <<>>
    /\ \A lang \in TableLanguages \cup OtherLanguages, category \in Categories :
          /\ \A k \in DOMAIN CategoryKinds(category, lang) :
                Contains(get_supported_node_types(lang),
                         CategoryKinds(category, lang)[k])
          /\ lang \in OtherLanguages => CategoryKinds(category, lang) = <<>>

\* search_functions with a pattern returned the function of a Python file
\* that also holds a class
C25_Witness ==
    /\ xpc = "searched"
    /\ search_args.op = "functions"
    /\ search_args.name_pattern = Some(<<"^", "a">>)
    /\ parsed_file.language = "Python"
    /\ Len(results) >= 1
    /\ \A k \in DOMAIN results : results[k].node_type = "function_definition"
    /\ \E i \in DOMAIN parsed_file.constructs :
          parsed_file.constructs[i].node_type = "class_definition"

\* the tasks inside parse_file: at its read or past it
InParseFile == {i \in DOMAIN tasks : tasks[i].pc \in {"read", "parse"}}

RECURSIVE AllowListedDepth(_)
\* how many proper ancestors of node n are allow-listed
AllowListedDepth(n) ==
    LET a == EnclosingConstructNode(n)
    IN IF a = 0 THEN 0 ELSE 1 + AllowListedDepth(a)

\* how often the construct of node n is in the sequence cs
Occurrences(cs, n) == Cardinality({k \in DOMAIN cs : cs[k].start_byte = n})

\* C27: with no name pattern, search_by_node_type and
\* search_by_multiple_node_types return a construct of a requested kind
\* that has d allow-listed ancestors exactly d + 1 times (once for d = 0),
\* and no construct of another kind.
C27_NestedMatchReturnedOncePerLevel ==
    (xpc = "searched" /\ search_args.op \in {"single", "multiple"}
        /\ search_args.name_pattern = None) =>
        /\ \A n \in AllowListedNodes :
              Occurrences(results, n) =
                 IF Contains(search_args.node_types, tree.lab[n].kind)
                 THEN AllowListedDepth(n) + 1 ELSE 0
        /\ \A k \in DOMAIN results : results[k].start_byte \in AllowListedNodes

\* a search without a name pattern over a file in which a construct of the
\* requested kind lies below two allow-listed ancestors (returned three
\* times) and a top-level one is returned once
C27_Witness ==
    /\ xpc = "searched"
    /\ search_args.name_pattern = None
    /\ \E n, m \in AllowListedNodes :
          /\ Contains(search_args.node_types, tree.lab[n].kind)
          /\ Contains(search_args.node_types, tree.lab[m].kind)
          /\ AllowListedDepth(n) = 2
          /\ Occurrences(results, n) = 3
          /\ AllowListedDepth(m) = 0
          /\ Occurrences(results, m) = 1


RECURSIVE AllowListedAncestors(_)
\* the allow-listed proper ancestors of node n, nearest first
AllowListedAncestors(n) ==
    LET a == EnclosingConstructNode(n)
    IN IF a = 0 THEN <<>> ELSE <<a>> \o AllowListedAncestors(a)

RECURSIVE ParentChain(_)
\* construct c followed by what its parent references lead to
ParentChain(c) ==
    IF c.parent = None THEN <<c>>
    ELSE <<c>> \o ParentChain(Unwrap(c.parent))

\* C28: the parent stored on a construct is the enclosing construct as it
\* was before its children were attached: for every construct of the
\* flattened list that has a parent, at any depth, parent.children is empty
\* while parent.parent leads through every allow-listed ancestor up to the
\* top-level one.
C28_ParentIsSnapshotWithoutChildren ==
    Extracted =>
        \A i \in DOMAIN parsed_file.constructs :
            LET c == parsed_file.constructs[i]
            IN IsSome(c.parent) =>
                  LET chain == ParentChain(Unwrap(c.parent))
                  IN /\ Unwrap(c.parent).children = <<>>
                     /\ StartBytes(chain) = AllowListedAncestors(c.start_byte)
                     /\ chain[Len(chain)].parent = None
                     /\ \A k \in DOMAIN chain : chain[k].children = <<>>

\* a construct two levels deep: its parent reference has no children
\* although the flattened entry of that same node holds the construct, and
\* the reference's own parent is the top-level construct
C28_Witness ==
    /\ xpc = "extracted"
    /\ \E i, j \in DOMAIN parsed_file.constructs :
          LET c == parsed_file.constructs[i]
              e == parsed_file.constructs[j]
          IN /\ IsSome(c.parent)
             /\ Unwrap(c.parent).children = <<>>
             /\ e.start_byte = Unwrap(c.parent).start_byte
             /\ StartBytes(e.children) = <<c.start_byte>>
             /\ IsSome(Unwrap(c.parent).parent)
             /\ Unwrap(Unwrap(c.parent).parent).parent = None
             /\ Unwrap(Unwrap(c.parent).parent).start_byte
                   = parsed_file.constructs[1].start_byte


\* the file_path of each member of a sequence of ParsedFile or FileError
FilePaths(fs_) == [k \in DOMAIN fs_ |-> fs_[k].file_path]

\* the members of the candidate list that are in `paths`, in candidate order
CandidatesAmong(paths) ==
    SelectSeq(files_to_parse,
              LAMBDA p : \E k \in DOMAIN paths : paths[k] = p)

\* the position of path p in the order in which the tasks finished
FinishedAt(p) == CHOOSE k \in DOMAIN completed : completed[k] = p

\* C29: whatever order the tasks finish in, files and error_files of the
\* returned project are each a sub-sequence of the candidate list in
\* enumeration order; so a second traversal over the same candidates with
\* the same per-file outcomes returns identical lists.
C29_ResultsInCandidateOrder ==
    ReturnedOk =>
        /\ FilePaths(Project.files) = CandidatesAmong(FilePaths(Project.files))
        /\ FilePaths(Project.error_files)
              = CandidatesAmong(FilePaths(Project.error_files))
        /\ (IsSome(prev) /\ Unwrap(prev).ret.ok) =>
              LET first == Unwrap(prev).ret.v
              IN ( /\ Range(first.files) = Range(Project.files)
                   /\ Range(first.error_files) = Range(Project.error_files) )
                 => /\ first.files = Project.files
                    /\ first.error_files = Project.error_files

\* a traversal returned two parsed files in candidate order although the
\* task of the later candidate finished first
C29_Witness ==
    /\ ReturnedOk
    /\ \E j, k \in DOMAIN Project.files :
          /\ j < k
          /\ FinishedAt(Project.files[k].file_path)
                < FinishedAt(Project.files[j].file_path)


\* the candidates of the chunks that have been joined so far
Joined == SubSeq(files_to_parse, 1, Min(chunk_start - 1, Len(files_to_parse)))

\* C30: for every max_concurrent_files >= 0 and every length of the
\* candidate list the partition step does not fault and computes a chunk
\* size >= 1; every chunk is non-empty and is the next contiguous run of the
\* candidate list, and the chunks joined so far account for each of their
\* candidates exactly once; max_concurrent_files = 0 faults nowhere.
C30_PartitionNeverFaults ==
    /\ pc # "panicked"
    /\ pc \in {"chunks", "join_all"} => chunk_size >= 1
    /\ pc = "join_all" =>
          /\ tasks # <<>>
          /\ [k \in DOMAIN tasks |-> tasks[k].path]
                = SubSeq(files_to_parse, chunk_start,
                         chunk_start + Len(tasks) - 1)
          /\ Len(tasks) = Min(chunk_size, Len(files_to_parse) - chunk_start + 1)
    /\ pc \in {"chunks", "join_all"} =>
          /\ Len(parsed_files) + Len(error_files) = Len(Joined)
          /\ Range(FilePaths(parsed_files)) \cup Range(FilePaths(error_files))
                = Range(Joined)

====
